---- MODULE Spec2Model ----
(***************************************************************************)
(* Query subsystem of log-chaos-visualizer: the field indexer, the query   *)
(* evaluator, the field extractor and the services that call them.         *)
(*                                                                         *)
(* JavaScript strings are modelled as sequences of one-character strings,  *)
(* so that toLowerCase, includes, split and the relational operators are   *)
(* computed character by character as the runtime computes them.           *)
(***************************************************************************)
EXTENDS Integers, Sequences, FiniteSets, TLC

\* ------------------------------------------------------------------------
\* JavaScript strings
\* ------------------------------------------------------------------------

\* The printable ASCII characters in code-unit order; Ascii[i] has code 31+i
\* (code 96 is written GRAVE).
Ascii ==
  << " ", "!", "\"", "#", "$", "%", "&", "'", "(", ")", "*", "+", ",", "-", ".", "/",
     "0", "1", "2", "3", "4", "5", "6", "7", "8", "9", ":", ";", "<", "=", ">", "?",
     "@", "A", "B", "C", "D", "E", "F", "G", "H", "I", "J", "K", "L", "M", "N", "O",
     "P", "Q", "R", "S", "T", "U", "V", "W", "X", "Y", "Z", "[", "\\", "]", "^", "_",
     "GRAVE", "a", "b", "c", "d", "e", "f", "g", "h", "i", "j", "k", "l", "m", "n", "o",
     "p", "q", "r", "s", "t", "u", "v", "w", "x", "y", "z", "{", "|", "}", "~" >>

\* Code unit of a character.
Ord(c) == 31 + (CHOOSE i \in 1..Len(Ascii) : Ascii[i] = c)

IsUpper(c) == Ord(c) >= 65 /\ Ord(c) <= 90
IsLower(c) == Ord(c) >= 97 /\ Ord(c) <= 122
IsDigit(c) == Ord(c) >= 48 /\ Ord(c) <= 57
\* \w of a regular expression: letters, digits and underscore.
IsWordChar(c) == IsUpper(c) \/ IsLower(c) \/ IsDigit(c) \/ c = "_"
\* \s of a regular expression, within ASCII.
IsSpace(c) == c = " "

LowerChar(c) == IF IsUpper(c) THEN Ascii[Ord(c) + 32 - 31] ELSE c
UpperChar(c) == IF IsLower(c) THEN Ascii[Ord(c) - 32 - 31] ELSE c

\* String.prototype.toLowerCase / toUpperCase
toLowerCase(s) == [i \in 1..Len(s) |-> LowerChar(s[i])]
toUpperCase(s) == [i \in 1..Len(s) |-> UpperChar(s[i])]

\* s.startsWith(p) at position i (1-based)
MatchAt(s, p, i) ==
  /\ i >= 1
  /\ i + Len(p) - 1 <= Len(s)
  /\ \A k \in 1..Len(p) : s[i + k - 1] = p[k]

\* String.prototype.includes / startsWith / endsWith
includes(s, p) == \E i \in 1..(Len(s) + 1) : MatchAt(s, p, i)
startsWith(s, p) == MatchAt(s, p, 1)
endsWith(s, p) == Len(p) <= Len(s) /\ MatchAt(s, p, Len(s) - Len(p) + 1)

\* The relational operators on strings: code-unit lexicographic order.
RECURSIVE StrLT(_, _)
StrLT(a, b) ==
  IF Len(b) = 0 THEN FALSE
  ELSE IF Len(a) = 0 THEN TRUE
  ELSE IF a[1] = b[1] THEN StrLT(Tail(a), Tail(b))
  ELSE Ord(a[1]) < Ord(b[1])

StrLE(a, b) == a = b \/ StrLT(a, b)

\* String(n) for a non-negative integer n.
RECURSIVE NumToStr(_)
NumToStr(n) ==
  IF n < 10 THEN << Ascii[n + 17] >>
  ELSE NumToStr(n \div 10) \o << Ascii[(n % 10) + 17] >>

\* s.split(/\s+/): the pieces between maximal runs of whitespace.
RECURSIVE SplitFrom(_, _, _)
SplitFrom(s, i, cur) ==
  IF i > Len(s) THEN << cur >>
  ELSE IF IsSpace(s[i])
       THEN IF i > 1 /\ IsSpace(s[i - 1])
            THEN SplitFrom(s, i + 1, cur)
            ELSE << cur >> \o SplitFrom(s, i + 1, << >>)
       ELSE SplitFrom(s, i + 1, Append(cur, s[i]))

splitWs(s) == SplitFrom(s, 1, << >>)

Range(seq) == {seq[i] : i \in 1..Len(seq)}

\* Array.prototype.slice(0, n)
Slice0(seq, n) == SubSeq(seq, 1, IF Len(seq) < n THEN Len(seq) ELSE n)

\* ------------------------------------------------------------------------
\* JavaScript values
\* ------------------------------------------------------------------------

\* A value is a record [t, s, n]: t is its type tag, s its characters when it
\* is a string, n its number when it is a number (or 1/0 for a boolean).
Str(s) == [t |-> "str", s |-> s, n |-> 0]
Num(n) == [t |-> "num", s |-> << >>, n |-> n]
Bool(b) == [t |-> "bool", s |-> << >>, n |-> IF b THEN 1 ELSE 0]
NaN == [t |-> "nan", s |-> << >>, n |-> 0]
Null == [t |-> "null", s |-> << >>, n |-> 0]
Undef == [t |-> "undef", s |-> << >>, n |-> 0]
Obj == [t |-> "obj", s |-> << >>, n |-> 0]
PosInf == [t |-> "+inf", s |-> << >>, n |-> 0]
NegInf == [t |-> "-inf", s |-> << >>, n |-> 0]

\* typeof v
TypeOf(v) ==
  CASE v.t = "str" -> "string"
    [] v.t \in {"num", "nan", "+inf", "-inf"} -> "number"
    [] v.t = "bool" -> "boolean"
    [] v.t = "undef" -> "undefined"
    [] OTHER -> "object"

\* v == null (null or undefined), as tested by ?? and ?.
IsNullish(v) == v.t \in {"null", "undef"}

\* ToBoolean(v)
Truthy(v) ==
  CASE v.t = "str" -> v.s # << >>
    [] v.t = "num" -> v.n # 0
    [] v.t = "bool" -> v.n = 1
    [] v.t \in {"obj", "+inf", "-inf"} -> TRUE
    [] OTHER -> FALSE

\* a ?? b and a || b
Coalesce(a, b) == IF IsNullish(a) THEN b ELSE a
OrElse(a, b) == IF Truthy(a) THEN a ELSE b

\* String(v)
String(v) ==
  CASE v.t = "str" -> v.s
    [] v.t = "num" -> NumToStr(v.n)
    [] v.t = "bool" -> IF v.n = 1 THEN <<"t","r","u","e">> ELSE <<"f","a","l","s","e">>
    [] v.t = "nan" -> <<"N","a","N">>
    [] v.t = "null" -> <<"n","u","l","l">>
    [] v.t = "undef" -> <<"u","n","d","e","f","i","n","e","d">>
    [] v.t = "+inf" -> <<"I","n","f","i","n","i","t","y">>
    [] v.t = "-inf" -> <<"-","I","n","f","i","n","i","t","y">>
    [] OTHER -> <<"[","o","b","j","e","c","t"," ","O","b","j","e","c","t","]">>

\* a < b and a <= b on numbers: false whenever an operand is NaN.
NumLT(a, b) ==
  CASE a.t = "nan" \/ b.t = "nan" -> FALSE
    [] a.t = "-inf" -> b.t # "-inf"
    [] a.t = "+inf" -> FALSE
    [] b.t = "-inf" -> FALSE
    [] b.t = "+inf" -> TRUE
    [] OTHER -> a.n < b.n

NumLE(a, b) ==
  CASE a.t = "nan" \/ b.t = "nan" -> FALSE
    [] a.t = "-inf" -> TRUE
    [] b.t = "+inf" -> TRUE
    [] a.t = "+inf" -> FALSE
    [] b.t = "-inf" -> FALSE
    [] OTHER -> a.n <= b.n

\* The date-time strings of the model: instants of the first second of the
\* epoch, "1970-01-01T00:00:00.mmmZ".
EpochPrefix ==
  <<"1","9","7","0","-","0","1","-","0","1","T","0","0",":","0","0",":","0","0",".">>

DigitVal(c) == Ord(c) - 48

\* Date.parse(s): the epoch milliseconds of a date-time string of the form
\* above, NaN for a string that is no date.
DateParse(s) ==
  IF /\ Len(s) = Len(EpochPrefix) + 4
     /\ SubSeq(s, 1, Len(EpochPrefix)) = EpochPrefix
     /\ \A k \in 1..3 : IsDigit(s[Len(EpochPrefix) + k])
     /\ s[Len(EpochPrefix) + 4] = "Z"
  THEN Num(100 * DigitVal(s[21]) + 10 * DigitVal(s[22]) + DigitVal(s[23]))
  ELSE NaN

\* Date.parse(v) of a value: the argument is converted with String first.
DateParseValue(v) == DateParse(String(v))

\* ------------------------------------------------------------------------
\* Parsed log entries
\* ------------------------------------------------------------------------

\* A ParsedLogEntry is [kind, entry]; entry is the format's record, a
\* function from property paths to values: <<"msg">> is the property msg,
\* <<"labels", "level">> the property level of the nested object labels
\* (whose own presence is the path <<"labels">>, with value Obj).
Has(rec, path) == path \in DOMAIN rec
Get(rec, path) == IF Has(rec, path) THEN rec[path] ELSE Undef
\* rec[name] and rec.obj?.name
Prop(rec, name) == Get(rec, << name >>)
Sub(rec, obj, name) == Get(rec, << obj, name >>)

\* The first match of /key=(alt1|alt2|...)\b/i in s: the alternative matched,
\* lowercased, or << >> when there is no match.
RegexKeyAlt(s, key, alts) ==
  LET low == toLowerCase(s)
      hit(i, a) ==
        /\ MatchAt(low, key \o a, i)
        /\ LET nxt == i + Len(key) + Len(a)
           IN nxt > Len(low) \/ ~IsWordChar(low[nxt])
      hits == {i \in 1..Len(low) : \E k \in 1..Len(alts) : hit(i, alts[k])}
  IN IF hits = {} THEN << >>
     ELSE LET first == CHOOSE i \in hits : \A j \in hits : i <= j
          IN alts[CHOOSE k \in 1..Len(alts) : hit(first, alts[k])]

sTrace == <<"t","r","a","c","e">>
sDebug == <<"d","e","b","u","g">>
sInfo == <<"i","n","f","o">>
sWarn == <<"w","a","r","n">>
sError == <<"e","r","r","o","r">>
sFatal == <<"f","a","t","a","l">>
sUnknown == <<"u","n","k","n","o","w","n">>
sDev == <<"d","e","v">>
sStaging == <<"s","t","a","g","i","n","g">>
sProd == <<"p","r","o","d">>
sSilly == <<"s","i","l","l","y">>
sVerbose == <<"v","e","r","b","o","s","e">>

\* The characters of a kind discriminator.
KindChars(kind) ==
  CASE kind = "pino" -> <<"p","i","n","o">>
    [] kind = "winston" -> <<"w","i","n","s","t","o","n">>
    [] kind = "loki" -> <<"l","o","k","i">>
    [] kind = "promtail" -> <<"p","r","o","m","t","a","i","l">>
    [] kind = "docker" -> <<"d","o","c","k","e","r">>
    [] kind = "text" -> <<"t","e","x","t">>
    [] OTHER -> <<"u","n","k","n","o","w","n","-","j","s","o","n">>

LevelNames == << sTrace, sDebug, sInfo, sWarn, sError, sFatal >>
EnvNames == << sDev, sStaging, sProd >>

\* The first level name contained in lc, in the order the code tests them.
FirstIncluded(lc, names) ==
  IF \E k \in 1..Len(names) : includes(lc, names[k])
  THEN names[CHOOSE k \in 1..Len(names) :
               /\ includes(lc, names[k])
               /\ \A j \in 1..(k - 1) : ~includes(lc, names[j])]
  ELSE sUnknown

getNormalizedLevel(parsed) ==
  LET e == parsed.entry IN
  CASE parsed.kind = "pino" ->
         LET lvl == Prop(e, "level") IN
         IF lvl.t # "num" THEN sUnknown
         ELSE CASE lvl.n = 10 -> sTrace
                [] lvl.n = 20 -> sDebug
                [] lvl.n = 30 -> sInfo
                [] lvl.n = 40 -> sWarn
                [] lvl.n = 50 -> sError
                [] lvl.n = 60 -> sFatal
                [] OTHER -> sUnknown
    [] parsed.kind = "winston" ->
         LET lvl == Prop(e, "level") IN
         IF lvl.t # "str" THEN sUnknown
         ELSE LET l == toLowerCase(lvl.s) IN
              CASE l = sSilly \/ l = sVerbose -> sTrace
                [] l = sDebug -> sDebug
                [] l = sInfo -> sInfo
                [] l = sWarn -> sWarn
                [] l = sError -> sError
                [] OTHER -> sUnknown
    [] parsed.kind = "promtail" ->
         LET lvl == Prop(e, "level") IN
         IF lvl.t = "str" /\ toLowerCase(lvl.s) \in {sDebug, sInfo, sWarn, sError}
         THEN toLowerCase(lvl.s)
         ELSE sUnknown
    [] parsed.kind = "loki" ->
         LET lvl == Sub(e, "labels", "level") IN
         IF lvl.t = "str" THEN toLowerCase(lvl.s) ELSE sUnknown
    [] parsed.kind = "docker" ->
         LET log == Coalesce(Prop(e, "log"), Str(<< >>))
             m == RegexKeyAlt(String(log), <<"l","e","v","e","l","=">>, LevelNames)
         IN IF m # << >> THEN m ELSE sUnknown
    [] parsed.kind = "text" ->
         LET line == Coalesce(Prop(e, "line"), Str(<< >>))
             firstToken == splitWs(String(line))[1]
             upperToken == toUpperCase(firstToken)
         IN IF \E k \in 1..Len(LevelNames) : upperToken = toUpperCase(LevelNames[k])
            THEN toLowerCase(upperToken)
            ELSE sUnknown
    [] OTHER ->
         LET candidate ==
               Coalesce(Prop(e, "level"),
                 Coalesce(Prop(e, "logLevel"),
                   Coalesce(Prop(e, "lvl"), Prop(e, "severity"))))
         IN IF candidate.t = "str"
            THEN FirstIncluded(toLowerCase(candidate.s), LevelNames)
            ELSE sUnknown

IsEnvName(v) == v.t = "str" /\ v.s \in {sDev, sStaging, sProd}

getNormalizedEnvironment(parsed) ==
  LET e == parsed.entry
      keyEnv == <<"e","n","v","=">>
  IN
  CASE parsed.kind = "loki" ->
         LET env == Sub(e, "labels", "environment") IN
         IF IsEnvName(env) THEN env.s ELSE sUnknown
    [] parsed.kind \in {"pino", "winston"} ->
         LET env == IF Has(e, << "meta" >>) THEN Sub(e, "meta", "environment") ELSE Undef IN
         IF IsEnvName(env) THEN env.s ELSE sUnknown
    [] parsed.kind = "promtail" ->
         LET env == Prop(e, "environment") IN
         IF IsEnvName(env) THEN env.s ELSE sUnknown
    [] parsed.kind = "docker" ->
         LET log == Coalesce(Prop(e, "log"), Str(<< >>))
             m == RegexKeyAlt(String(log), keyEnv, EnvNames)
         IN IF m # << >> THEN m ELSE sUnknown
    [] parsed.kind = "text" ->
         LET line == Coalesce(Prop(e, "line"), Str(<< >>))
             m == RegexKeyAlt(String(line), keyEnv, EnvNames)
         IN IF m # << >> THEN m ELSE sUnknown
    [] OTHER ->
         LET env == Coalesce(Prop(e, "environment"),
                      Coalesce(Prop(e, "env"), Prop(e, "envName")))
         IN IF IsEnvName(env) THEN env.s ELSE sUnknown

\* ------------------------------------------------------------------------
\* Level and environment of an entry as the service derives them
\* (file-parse.service.ts)
\* ------------------------------------------------------------------------

\* normalizeLogLevel of the service: strict comparisons, no lowercasing, no
\* branch for loki entries.
normalizeLogLevel(parsed) ==
  LET e == parsed.entry IN
  CASE parsed.kind = "pino" ->
         LET lvl == Prop(e, "level") IN
         IF lvl.t # "num" THEN sUnknown
         ELSE CASE lvl.n = 10 -> sTrace
                [] lvl.n = 20 -> sDebug
                [] lvl.n = 30 -> sInfo
                [] lvl.n = 40 -> sWarn
                [] lvl.n = 50 -> sError
                [] lvl.n = 60 -> sFatal
                [] OTHER -> sUnknown
    [] parsed.kind = "winston" ->
         LET lvl == Prop(e, "level") IN
         IF lvl.t # "str" THEN sUnknown
         ELSE CASE lvl.s \in {sDebug, sInfo, sWarn, sError} -> lvl.s
                [] lvl.s \in {sSilly, sVerbose} -> sTrace
                [] OTHER -> sUnknown
    [] parsed.kind = "promtail" ->
         LET lvl == Prop(e, "level") IN
         IF lvl.t = "str" /\ lvl.s \in {sDebug, sInfo, sWarn, sError}
         THEN lvl.s
         ELSE sUnknown
    [] parsed.kind = "text" ->
         LET raw == Prop(e, "line") IN
         IF ~Truthy(raw) THEN sUnknown
         ELSE LET firstToken == splitWs(String(raw))[1] IN
              IF firstToken \in {toUpperCase(sTrace), toUpperCase(sDebug),
                                 toUpperCase(sInfo), toUpperCase(sWarn),
                                 toUpperCase(sError)}
              THEN toLowerCase(firstToken)
              ELSE sUnknown
    [] parsed.kind = "docker" ->
         LET stream == toLowerCase(String(Coalesce(Prop(e, "stream"), Str(<< >>))))
             log == Coalesce(Prop(e, "log"), Str(<< >>))
             m == RegexKeyAlt(String(log), <<"l","e","v","e","l","=">>, LevelNames)
         IN CASE stream = <<"s","t","d","e","r","r">> -> sError
              [] stream = <<"s","t","d","o","u","t">> -> sInfo
              [] m # << >> -> m
              [] OTHER -> sUnknown
    [] OTHER -> sUnknown

\* normalizeEnvironment of the service: the pattern of docker and text
\* entries is case-sensitive, and there is no branch for other kinds.
normalizeEnvironment(parsed) ==
  LET e == parsed.entry
      keyEnv == <<"e","n","v","=">>
      hit(s, i, a) ==
        /\ MatchAt(s, keyEnv \o a, i)
        /\ LET nxt == i + Len(keyEnv) + Len(a)
           IN nxt > Len(s) \/ ~IsWordChar(s[nxt])
      cased(s) ==
        LET hits == {i \in 1..Len(s) : \E k \in 1..Len(EnvNames) : hit(s, i, EnvNames[k])}
        IN IF hits = {} THEN << >>
           ELSE LET first == CHOOSE i \in hits : \A j \in hits : i <= j
                IN EnvNames[CHOOSE k \in 1..Len(EnvNames) : hit(s, first, EnvNames[k])]
  IN
  CASE parsed.kind = "loki" ->
         LET env == Sub(e, "labels", "environment") IN
         IF IsEnvName(env) THEN env.s ELSE sUnknown
    [] parsed.kind \in {"pino", "winston"} ->
         LET env == IF Has(e, << "meta" >>) THEN Sub(e, "meta", "environment") ELSE Undef IN
         IF IsEnvName(env) THEN env.s ELSE sUnknown
    [] parsed.kind = "promtail" ->
         LET env == Prop(e, "environment") IN
         IF IsEnvName(env) THEN env.s ELSE sUnknown
    [] parsed.kind = "docker" ->
         LET m == cased(String(Coalesce(Prop(e, "log"), Str(<< >>))))
         IN IF m # << >> THEN m ELSE sUnknown
    [] parsed.kind = "text" ->
         LET m == cased(String(Coalesce(Prop(e, "line"), Str(<< >>))))
         IN IF m # << >> THEN m ELSE sUnknown
    [] OTHER -> sUnknown

\* ------------------------------------------------------------------------
\* Field extractor (field-extractor.ts)
\* ------------------------------------------------------------------------

extractFromRawEntry(entry, fieldName) ==
  LET e == entry.entry IN
  CASE entry.kind = "pino" ->
         CASE fieldName \in {"message", "msg"} -> Prop(e, "msg")
           [] fieldName \in {"timestamp", "time"} -> Prop(e, "time")
           [] fieldName = "hostname" -> Prop(e, "hostname")
           [] fieldName = "pid" -> Prop(e, "pid")
           [] fieldName = "name" -> Coalesce(Prop(e, "name"), Null)
           [] fieldName = "method" -> Coalesce(Sub(e, "req", "method"), Null)
           [] fieldName = "url" -> Coalesce(Sub(e, "req", "url"), Null)
           [] fieldName = "statusCode" -> Coalesce(Sub(e, "res", "statusCode"), Null)
           [] fieldName = "responseTime" -> Coalesce(Sub(e, "res", "responseTimeMs"), Null)
           [] fieldName = "requestId" -> Coalesce(Sub(e, "req", "id"), Null)
           [] OTHER -> Prop(e, fieldName)
    [] entry.kind = "winston" ->
         CASE fieldName = "message" -> Prop(e, "message")
           [] fieldName = "timestamp" -> DateParseValue(Prop(e, "timestamp"))
           [] fieldName = "requestId" -> Coalesce(Sub(e, "meta", "requestId"), Null)
           [] fieldName = "userId" -> Coalesce(Sub(e, "meta", "userId"), Null)
           [] fieldName = "traceId" -> Coalesce(Sub(e, "meta", "traceId"), Null)
           [] OTHER -> Prop(e, fieldName)
    [] entry.kind = "loki" ->
         CASE fieldName \in {"message", "line"} -> Prop(e, "line")
           [] fieldName \in {"timestamp", "ts"} -> DateParseValue(Prop(e, "ts"))
           [] fieldName = "job" -> Coalesce(Sub(e, "labels", "job"), Null)
           [] fieldName = "instance" -> Coalesce(Sub(e, "labels", "instance"), Null)
           [] fieldName = "app" -> Coalesce(Sub(e, "labels", "app"), Null)
           [] fieldName = "environment" -> Coalesce(Sub(e, "labels", "environment"), Null)
           [] OTHER ->
                IF Has(e, << "labels" >>) /\ Has(e, << "labels", fieldName >>)
                THEN Coalesce(Sub(e, "labels", fieldName), Null)
                ELSE Null
    [] entry.kind = "docker" ->
         CASE fieldName \in {"message", "log"} -> Prop(e, "log")
           [] fieldName \in {"timestamp", "time"} -> DateParseValue(Prop(e, "time"))
           [] fieldName = "stream" -> Prop(e, "stream")
           [] OTHER -> Null
    [] entry.kind = "promtail" ->
         CASE fieldName = "message" -> Prop(e, "message")
           [] fieldName \in {"timestamp", "ts"} -> DateParseValue(Prop(e, "ts"))
           [] fieldName = "level" -> Prop(e, "level")
           [] OTHER -> Null
    [] entry.kind = "text" ->
         CASE fieldName \in {"message", "line"} -> Prop(e, "line")
           [] OTHER -> Null
    [] entry.kind = "unknown-json" ->
         LET value == Prop(e, fieldName) IN
         IF TypeOf(value) \in {"string", "number", "boolean"} THEN value ELSE Null
    [] OTHER -> Null

\* extractFieldValue of field-extractor.ts, which the evaluator imports as
\* extractField.
extractField(entry, fieldName) ==
  IF fieldName = "kind" THEN Str(KindChars(entry.kind))
  ELSE extractFromRawEntry(entry, fieldName)

\* ------------------------------------------------------------------------
\* Per-kind message and timestamp extraction (the indexer's private helpers;
\* the first evaluator revision carries the same two functions)
\* ------------------------------------------------------------------------

extractMessage(entry) ==
  LET e == entry.entry IN
  CASE entry.kind = "pino" -> OrElse(Prop(e, "msg"), Null)
    [] entry.kind = "winston" -> OrElse(Prop(e, "message"), Null)
    [] entry.kind = "loki" -> OrElse(Prop(e, "line"), Null)
    [] entry.kind = "promtail" -> OrElse(Prop(e, "message"), Null)
    [] entry.kind = "docker" -> OrElse(Prop(e, "log"), Null)
    [] entry.kind = "text" -> OrElse(Prop(e, "line"), Null)
    [] OTHER -> Null

extractTimestamp(entry) ==
  LET e == entry.entry IN
  CASE entry.kind = "pino" ->
         IF TypeOf(Prop(e, "time")) = "number" THEN Prop(e, "time") ELSE Null
    [] entry.kind = "winston" -> DateParseValue(Prop(e, "timestamp"))
    [] entry.kind \in {"loki", "promtail"} -> DateParseValue(Prop(e, "ts"))
    [] entry.kind = "docker" -> DateParseValue(Prop(e, "time"))
    [] OTHER -> Null

\* extractFieldValue local to the first evaluator revision.
extractFieldValue(entry, fieldName) ==
  LET e == entry.entry
      only(kind, v) == IF entry.kind = kind THEN v ELSE Null
  IN
  CASE fieldName = "level" -> Str(getNormalizedLevel(entry))
    [] fieldName = "environment" -> Str(getNormalizedEnvironment(entry))
    [] fieldName = "kind" -> Str(KindChars(entry.kind))
    [] fieldName = "message" -> extractMessage(entry)
    [] fieldName = "timestamp" -> extractTimestamp(entry)
    [] fieldName \in {"msg", "hostname", "pid", "name", "time"} ->
         only("pino", Prop(e, fieldName))
    [] fieldName \in {"requestId", "userId", "traceId"} ->
         only("winston", OrElse(Sub(e, "meta", fieldName), Null))
    [] fieldName = "line" -> only("loki", Prop(e, "line"))
    [] fieldName \in {"job", "instance", "app"} ->
         only("loki", OrElse(Sub(e, "labels", fieldName), Null))
    [] fieldName \in {"log", "stream"} -> only("docker", Prop(e, fieldName))
    [] fieldName = "statusCode" ->
         IF entry.kind = "pino" /\ Has(e, << "res" >>)
         THEN Sub(e, "res", "statusCode") ELSE Null
    [] fieldName = "method" ->
         IF entry.kind = "pino" /\ Has(e, << "req" >>)
         THEN Sub(e, "req", "method") ELSE Null
    [] fieldName = "url" ->
         IF entry.kind = "pino" /\ Has(e, << "req" >>)
         THEN Sub(e, "req", "url") ELSE Null
    [] fieldName = "responseTime" ->
         IF entry.kind = "pino" /\ Has(e, << "res" >>)
         THEN Sub(e, "res", "responseTimeMs") ELSE Null
    [] OTHER -> Coalesce(Prop(e, fieldName), Null)

\* ------------------------------------------------------------------------
\* Comparison and function predicates (query-evaluator.ts)
\* ------------------------------------------------------------------------

\* The ordering of two strings under a relational operator.
StrCompare(a, operator, b) ==
  CASE operator = "=" -> a = b
    [] operator = "!=" -> a # b
    [] operator = ">" -> StrLT(b, a)
    [] operator = "<" -> StrLT(a, b)
    [] operator = ">=" -> StrLE(b, a)
    [] operator = "<=" -> StrLE(a, b)
    [] OTHER -> FALSE

\* The ordering of two numbers under a relational operator.
NumCompare(a, operator, b) ==
  CASE operator = ">" -> NumLT(b, a)
    [] operator = "<" -> NumLT(a, b)
    [] operator = ">=" -> NumLE(b, a)
    [] operator = "<=" -> NumLE(a, b)
    [] OTHER -> FALSE

\* The compareValues that orders every pair of operands by their string forms.
compareValuesAsText(fieldValue, operator, targetValue) ==
  StrCompare(String(fieldValue), operator, String(targetValue))

\* compareValues of the evaluator that reads fields through field-extractor:
\* two strings are compared lowercased; otherwise = and != compare the string
\* forms and the ordering operators compare numerically only when both
\* operands are numbers.
compareValues(fieldValue, operator, targetValue) ==
  IF TypeOf(fieldValue) = "string" /\ TypeOf(targetValue) = "string"
  THEN StrCompare(toLowerCase(fieldValue.s), operator, toLowerCase(targetValue.s))
  ELSE IF operator \in {">", "<", ">=", "<="}
          /\ TypeOf(fieldValue) = "number" /\ TypeOf(targetValue) = "number"
       THEN NumCompare(fieldValue, operator, targetValue)
       ELSE StrCompare(String(fieldValue), operator, String(targetValue))

\* compareValues of the first evaluator revision: always case-sensitive.
compareValuesCaseSensitive(fieldValue, operator, targetValue) ==
  IF operator \in {">", "<", ">=", "<="}
     /\ TypeOf(fieldValue) = "number" /\ TypeOf(targetValue) = "number"
  THEN NumCompare(fieldValue, operator, targetValue)
  ELSE StrCompare(String(fieldValue), operator, String(targetValue))

\* Regular expressions. The patterns of the model are literal texts (word
\* characters and spaces), which match where they occur, and texts with an
\* unclosed group or class, which do not compile.
RegExpFlags == {"d", "g", "i", "m", "s", "u", "v", "y"}

Count(seq, c) == Cardinality({i \in 1..Len(seq) : seq[i] = c})

\* new RegExp(pattern, flags) throws a SyntaxError
RegExpThrows(pattern, flags) ==
  \/ \E i \in 1..Len(flags) : flags[i] \notin RegExpFlags
  \/ \E i, j \in 1..Len(flags) : i # j /\ flags[i] = flags[j]
  \/ Count(pattern, "(") # Count(pattern, ")")
  \/ Count(pattern, "[") # Count(pattern, "]")

\* new RegExp(pattern, flags).test(s) for a pattern that compiles
RegExpTest(pattern, flags, s) ==
  LET ci == \E i \in 1..Len(flags) : flags[i] = "i"
      sticky == \E i \in 1..Len(flags) : flags[i] = "y"
      subject == IF ci THEN toLowerCase(s) ELSE s
      needle == IF ci THEN toLowerCase(pattern) ELSE pattern
  IN IF sticky THEN startsWith(subject, needle) ELSE includes(subject, needle)

\* The applyFunction that tests the pattern text whether or not it compiles.
applyFunctionWithoutCatch(fieldValue, functionName, argument) ==
  /\ functionName = "matches"
  /\ IF argument.type = "RegexPattern" /\ argument.pattern # << >>
     THEN RegExpTest(argument.pattern, argument.flags, fieldValue)
     ELSE RegExpTest(String(argument.value), << >>, fieldValue)

\* argument is [type, value, pattern, flags]: a Literal carries value, a
\* RegexPattern carries pattern and flags.
applyFunction(fieldValue, functionName, argument) ==
  LET fieldLower == toLowerCase(fieldValue)
      searchStr == toLowerCase(String(OrElse(argument.value, Str(<< >>))))
  IN
  CASE functionName = "contains" -> includes(fieldLower, searchStr)
    [] functionName = "startsWith" -> startsWith(fieldLower, searchStr)
    [] functionName = "endsWith" -> endsWith(fieldLower, searchStr)
    [] functionName = "matches" ->
         IF argument.type = "RegexPattern" /\ argument.pattern # << >>
         THEN /\ ~RegExpThrows(argument.pattern, argument.flags)
              /\ RegExpTest(argument.pattern, argument.flags, fieldValue)
         ELSE IF Truthy(argument.value)
              THEN /\ ~RegExpThrows(String(argument.value), << >>)
                   /\ RegExpTest(String(argument.value), << >>, fieldValue)
              ELSE FALSE
    [] OTHER -> FALSE

\* ------------------------------------------------------------------------
\* Field indexer (class FieldIndexer)
\* ------------------------------------------------------------------------

\* A Map<string, number[]> is a function from its keys to index lists.
EmptyMap == [k \in {} |-> << >>]

MapGet(m, key) == IF key \in DOMAIN m THEN m[key] ELSE << >>

\* if (!map.has(key)) map.set(key, []); map.get(key).push(index)
MapPush(m, key, index) ==
  [k \in (DOMAIN m) \cup {key} |->
     IF k = key THEN Append(MapGet(m, key), index) ELSE m[k]]

createEmptyIndexes ==
  [byLevel |-> EmptyMap,
   byEnvironment |-> EmptyMap,
   byKind |-> EmptyMap,
   timestamps |-> << >>,
   messageKeywords |-> EmptyMap,
   totalEntries |-> 0]

StopWords ==
  { <<"t","h","e">>, <<"a","n","d">>, <<"o","r">>, <<"b","u","t">>, <<"i","n">>,
    <<"o","n">>, <<"a","t">>, <<"t","o">>, <<"f","o","r">>, <<"o","f">>,
    <<"w","i","t","h">>, <<"a">>, <<"a","n">>, <<"a","s">>, <<"b","y">>,
    <<"i","s">>, <<"w","a","s">>, <<"a","r","e">>, <<"w","e","r","e">>,
    <<"b","e","e","n">>, <<"b","e">>, <<"h","a","v","e">>, <<"h","a","s">>,
    <<"h","a","d">>, <<"d","o">>, <<"d","o","e","s">>, <<"d","i","d">>,
    <<"w","i","l","l">>, <<"w","o","u","l","d">>, <<"c","o","u","l","d">>,
    <<"s","h","o","u","l","d">>, <<"m","a","y">>, <<"m","i","g","h","t">>,
    <<"m","u","s","t">>, <<"c","a","n">>, <<"t","h","i","s">>, <<"t","h","a","t">>,
    <<"t","h","e","s","e">>, <<"t","h","o","s","e">>, <<"i","t">>, <<"i","t","s">>,
    <<"f","r","o","m">> }

isStopWord(word) == word \in StopWords

MinKeywordLength == 3
MaxKeywordsPerMessage == 10

IsKeyword(w) == Len(w) >= MinKeywordLength /\ ~isStopWord(w)

\* The keywords indexed for one message, in message order.
messageKeywordsOf(message) ==
  Slice0(SelectSeq(splitWs(toLowerCase(message)), IsKeyword), MaxKeywordsPerMessage)

RECURSIVE PushAll(_, _, _)
PushAll(m, keys, index) ==
  IF keys = << >> THEN m
  ELSE PushAll(MapPush(m, Head(keys), index), Tail(keys), index)

\* indexMessageKeywords without `words.slice(0, 10)`.
indexMessageKeywordsOfEveryWord(keywordMap, message, index) ==
  PushAll(keywordMap, SelectSeq(splitWs(toLowerCase(message)), IsKeyword), index)

indexMessageKeywords(keywordMap, message, index) ==
  PushAll(keywordMap, messageKeywordsOf(message), index)

indexEntry(ix, entry, index) ==
  LET timestamp == extractTimestamp(entry)
      message == extractMessage(entry)
  IN [ix EXCEPT
        !.byLevel = MapPush(@, getNormalizedLevel(entry), index),
        !.byEnvironment = MapPush(@, getNormalizedEnvironment(entry), index),
        !.byKind = MapPush(@, KindChars(entry.kind), index),
        !.timestamps =
           IF timestamp.t # "null"
           THEN Append(@, [index |-> index, timestamp |-> timestamp])
           ELSE @,
        !.messageKeywords =
           IF Truthy(message) THEN indexMessageKeywords(@, message.s, index) ELSE @]

\* entries.forEach((entry, offset) => this.indexEntry(entry, startIndex + offset))
RECURSIVE IndexAll(_, _, _)
IndexAll(ix, batch, startIndex) ==
  IF batch = << >> THEN ix
  ELSE IndexAll(indexEntry(ix, Head(batch), startIndex), Tail(batch), startIndex + 1)

\* Insertion of x after the elements that do not exceed it: the step of a
\* stable ascending sort by (a, b) => a.timestamp - b.timestamp.
RECURSIVE InsertByTimestamp(_, _)
InsertByTimestamp(sorted, x) ==
  IF sorted = << >> THEN << x >>
  ELSE IF NumLT(x.timestamp, Head(sorted).timestamp)
       THEN << x >> \o sorted
       ELSE << Head(sorted) >> \o InsertByTimestamp(Tail(sorted), x)

RECURSIVE StableSort(_)
StableSort(ts) ==
  IF ts = << >> THEN << >>
  ELSE InsertByTimestamp(StableSort(SubSeq(ts, 1, Len(ts) - 1)), ts[Len(ts)])

Rearrangements(ts) ==
  {[i \in 1..Len(ts) |-> ts[p[i]]] : p \in Permutations(1..Len(ts))}

\* The arrays timestamps.sort((a, b) => a.timestamp - b.timestamp) can leave.
\* The sort is stable, and a comparator result of NaN counts as 0. With a NaN
\* timestamp beside two different numbers the comparator is not consistent
\* (the NaN equals both, which differ), and the order of the result is
\* implementation-defined: any rearrangement of the array.
sortTimestamps(ts) ==
  IF /\ \E i \in 1..Len(ts) : ts[i].timestamp.t = "nan"
     /\ \E i \in 1..Len(ts), j \in 1..Len(ts) :
          NumLT(ts[i].timestamp, ts[j].timestamp)
  THEN Rearrangements(ts)
  ELSE {StableSort(ts)}

\* The indexes buildIndexes(entries) can leave.
buildIndexes(entries) ==
  LET built == IndexAll(createEmptyIndexes, entries, 0)
  IN {[built EXCEPT !.timestamps = sorted, !.totalEntries = Len(entries)] :
        sorted \in sortTimestamps(built.timestamps)}

\* The addEntry that indexes the entry and leaves the count as it is.
addEntryWithoutCount(ix, entry, index) == indexEntry(ix, entry, index)

addEntry(ix, entry, index) ==
  [indexEntry(ix, entry, index) EXCEPT !.totalEntries = @ + 1]

\* The indexes addBatch(entries, startIndex) can leave.
addBatch(ix, batch, startIndex) ==
  LET added == IndexAll(ix, batch, startIndex)
  IN {[added EXCEPT !.timestamps = sorted, !.totalEntries = @ + Len(batch)] :
        sorted \in sortTimestamps(added.timestamps)}

queryByLevel(ix, level) == MapGet(ix.byLevel, level)
queryByEnvironment(ix, env) == MapGet(ix.byEnvironment, env)
queryByKind(ix, kind) == MapGet(ix.byKind, kind)
queryByKeyword(ix, keyword) == MapGet(ix.messageKeywords, toLowerCase(keyword))

\* The binary search of queryTimestampRange over the 0-based positions
\* left..right: the position the loop ends with in left.
RECURSIVE SearchStart(_, _, _, _)
SearchStart(ts, left, right, actualStart) ==
  IF left > right THEN left
  ELSE LET mid == (left + right) \div 2 IN
       IF NumLT(ts[mid + 1].timestamp, actualStart)
       THEN SearchStart(ts, mid + 1, right, actualStart)
       ELSE SearchStart(ts, left, mid - 1, actualStart)

\* for (i = left; i < length && timestamps[i].timestamp <= actualEnd; i++)
RECURSIVE CollectFrom(_, _, _)
CollectFrom(ts, i, actualEnd) ==
  IF i < Len(ts) /\ NumLE(ts[i + 1].timestamp, actualEnd)
  THEN << ts[i + 1].index >> \o CollectFrom(ts, i + 1, actualEnd)
  ELSE << >>

\* startMs and endMs are numbers or Null.
queryTimestampRange(ix, startMs, endMs) ==
  LET timestamps == ix.timestamps
      actualStart == Coalesce(startMs, NegInf)
      actualEnd == Coalesce(endMs, PosInf)
  IN IF Len(timestamps) = 0 THEN << >>
     ELSE CollectFrom(timestamps,
                      SearchStart(timestamps, 0, Len(timestamps) - 1, actualStart),
                      actualEnd)

\* ------------------------------------------------------------------------
\* Query evaluator
\* ------------------------------------------------------------------------

\* An EvaluationContext is [entries, hasIndexer, indexer, revision]: indexer
\* holds the indexes of the FieldIndexer when hasIndexer. Index lists and
\* match lists hold the 0-based indices of the code; entries[i + 1] is the
\* entry with index i. revision names the evaluator of query-evaluator.ts in
\* use: "extractor" reads fields through field-extractor.ts, "inline" through
\* its own extractFieldValue.

\* extractField / extractFieldValue as the evaluator in use calls it.
FieldValueOf(context, entry, fieldName) ==
  IF context.revision = "extractor"
  THEN extractField(entry, fieldName)
  ELSE extractFieldValue(entry, fieldName)

CompareOf(context, fieldValue, operator, targetValue) ==
  IF context.revision = "extractor"
  THEN compareValues(fieldValue, operator, targetValue)
  ELSE compareValuesCaseSensitive(fieldValue, operator, targetValue)

\* The 0-based indices i of entries, ascending, for which Test(i) holds.
RECURSIVE ScanFrom(_, _, _)
ScanFrom(i, n, hit) ==
  IF i >= n THEN << >>
  ELSE IF i \in hit THEN << i >> \o ScanFrom(i + 1, n, hit)
       ELSE ScanFrom(i + 1, n, hit)

\* The full scan of a comparison: entries.forEach with the null test.
scanComparison(node, context) ==
  LET n == Len(context.entries)
      hit == {i \in 0..(n - 1) :
                LET fieldValue == FieldValueOf(context, context.entries[i + 1], node.field)
                IN /\ fieldValue.t # "null"
                   /\ CompareOf(context, fieldValue, node.operator, node.value)}
  IN ScanFrom(0, n, hit)

evaluateComparisonExpression(node, context) ==
  LET fieldName == node.field
      operator == node.operator
      targetValue == node.value
      timestamp == DateParse(String(targetValue))
  IN
  IF context.hasIndexer /\ operator = "=" /\ fieldName = "level"
  THEN queryByLevel(context.indexer, String(targetValue))
  ELSE IF context.hasIndexer /\ operator = "=" /\ fieldName = "environment"
  THEN queryByEnvironment(context.indexer, String(targetValue))
  ELSE IF /\ context.hasIndexer
          /\ fieldName = "timestamp"
          /\ node.valueType = "string"
          /\ timestamp.t # "nan"
          /\ operator \in {">", ">=", "<", "<=", "="}
  THEN CASE operator = ">" ->
              queryTimestampRange(context.indexer, Num(timestamp.n + 1), Null)
         [] operator = ">=" -> queryTimestampRange(context.indexer, timestamp, Null)
         [] operator = "<" ->
              queryTimestampRange(context.indexer, Null, Num(timestamp.n - 1))
         [] operator = "<=" -> queryTimestampRange(context.indexer, Null, timestamp)
         [] OTHER -> queryTimestampRange(context.indexer, timestamp, timestamp)
  ELSE scanComparison(node, context)

\* keywordIndices.forEach: the candidates that the real predicate confirms.
RECURSIVE VerifyCandidates(_, _, _)
VerifyCandidates(candidates, node, context) ==
  IF candidates = << >> THEN << >>
  ELSE LET index == Head(candidates)
           \* context.entries[index] is undefined past the end of the array,
           \* and extracting a field of undefined throws inside the
           \* extractor's try block, which returns null
           fieldValue ==
             IF index < Len(context.entries)
             THEN FieldValueOf(context, context.entries[index + 1], node.field)
             ELSE Null
           keep == /\ Truthy(fieldValue)
                   /\ applyFunction(String(fieldValue), node.function, node.argument)
       IN (IF keep THEN << index >> ELSE << >>)
            \o VerifyCandidates(Tail(candidates), node, context)

evaluateFunctionCall(node, context) ==
  LET fieldName == node.field
      functionName == node.function
      argument == node.argument
  IN
  IF /\ context.hasIndexer
     /\ functionName = "contains"
     /\ argument.type = "Literal"
     /\ TypeOf(argument.value) = "string"
     /\ fieldName = "message"
  THEN VerifyCandidates(
         queryByKeyword(context.indexer, toLowerCase(String(argument.value))),
         node, context)
  ELSE LET n == Len(context.entries)
           hit == {i \in 0..(n - 1) :
                     LET fieldValue == FieldValueOf(context, context.entries[i + 1], fieldName)
                     IN /\ fieldValue.t # "null"
                        /\ applyFunction(String(fieldValue), functionName, argument)}
       IN ScanFrom(0, n, hit)

\* The AND that does not filter: the right operand's indices as they are.
AndWithoutFilter(leftIndices, rightIndices) == rightIndices

\* rightIndices.filter((idx) => leftSet.has(idx))
AndOf(leftIndices, rightIndices) ==
  LET leftSet == Range(leftIndices)
      inLeft(idx) == idx \in leftSet
  IN SelectSeq(rightIndices, inLeft)

\* Array.from(new Set([...leftIndices, ...rightIndices])).sort((a, b) => a - b)
OrOf(leftIndices, rightIndices) ==
  LET resultSet == Range(leftIndices) \cup Range(rightIndices)
      top == IF resultSet = {} THEN 0
             ELSE 1 + CHOOSE m \in resultSet : \A x \in resultSet : x <= m
  IN ScanFrom(0, top, resultSet)

RECURSIVE evaluateNode(_, _)

evaluateBinaryExpression(node, context) ==
  LET leftIndices == evaluateNode(node.left, context)
      rightIndices == evaluateNode(node.right, context)
  IN IF node.operator = "AND"
     THEN AndOf(leftIndices, rightIndices)
     ELSE OrOf(leftIndices, rightIndices)

\* The NOT that counts the entries from 1: the complement against
\* 1..entries.length.
NotCountingFromOne(node, context) ==
  LET matchedSet == Range(evaluateNode(node.expression, context))
      n == Len(context.entries)
  IN ScanFrom(1, n + 1, (1..n) \ matchedSet)

evaluateNotExpression(node, context) ==
  LET matchedSet == Range(evaluateNode(node.expression, context))
      n == Len(context.entries)
  IN ScanFrom(0, n, (0..(n - 1)) \ matchedSet)

evaluateNode(node, context) ==
  CASE node.type = "BinaryExpression" -> evaluateBinaryExpression(node, context)
    [] node.type = "ComparisonExpression" -> evaluateComparisonExpression(node, context)
    [] node.type = "FunctionCall" -> evaluateFunctionCall(node, context)
    [] node.type = "NotExpression" -> evaluateNotExpression(node, context)
    [] OTHER -> << >>

\* evaluateQuery(ast, context).matchedIndices
evaluateQuery(ast, context) == evaluateNode(ast, context)

\* ------------------------------------------------------------------------
\* Entries and queries of the model
\* ------------------------------------------------------------------------

\* The ISO date-time string of an instant ms < 1000 of the epoch.
IsoString(ms) ==
  EpochPrefix
    \o << Ascii[(ms \div 100) + 17], Ascii[((ms \div 10) % 10) + 17], Ascii[(ms % 10) + 17] >>
    \o << "Z" >>

sDbTimeout == <<"d","b"," ","t","i","m","e","o","u","t">>
sOk == <<"o","k">>
sTimeoutTheAnd == <<"T","i","m","e","o","u","t"," ","t","h","e"," ","a","n","d">>
sTimeoutTwice == <<"t","i","m","e","o","u","t"," ","t","i","m","e","o","u","t">>
sTextLine ==
  <<"E","R","R","O","R"," ","e","n","v","=","p","r","o","d"," ","d","i","s","k"," ","f","u","l","l">>
\* eleven keywords, the last of them "timeout"
sLong ==
  <<"j","o","b"," ","o","n","e"," ","t","w","o"," ","s","i","x"," ","t","e","n"," ",
    "r","e","d"," ","b","i","g"," ","h","o","t"," ","n","e","w"," ","o","l","d"," ",
    "t","i","m","e","o","u","t">>
sNotADate == <<"y","e","s","t","e","r","d","a","y">>
sTimeout == <<"t","i","m","e","o","u","t">>
sTime == <<"t","i","m","e">>
sWeb == <<"w","e","b">>
sUndef == <<"u","n","d","e","f">>
sHostA == <<"h","o","s","t","-","a">>
sSvc == <<"s","v","c">>

PinoError ==
  [kind |-> "pino",
   entry |-> << "time" >> :> Num(200) @@ << "level" >> :> Num(50)
             @@ << "msg" >> :> Str(sDbTimeout) @@ << "pid" >> :> Num(7)
             @@ << "hostname" >> :> Str(sHostA) @@ << "name" >> :> Str(sSvc)]

PinoInfo ==
  [kind |-> "pino",
   entry |-> << "time" >> :> Num(100) @@ << "level" >> :> Num(30)
             @@ << "msg" >> :> Str(sOk) @@ << "pid" >> :> Num(7)
             @@ << "hostname" >> :> Str(sHostA) @@ << "name" >> :> Str(sSvc)
             @@ << "meta" >> :> Obj @@ << "meta", "environment" >> :> Str(sProd)]

WinstonBadDate ==
  [kind |-> "winston",
   entry |-> << "timestamp" >> :> Str(sNotADate) @@ << "level" >> :> Str(sError)
             @@ << "message" >> :> Str(sTimeoutTheAnd)]

WinstonLong ==
  [kind |-> "winston",
   entry |-> << "timestamp" >> :> Str(IsoString(100)) @@ << "level" >> :> Str(sInfo)
             @@ << "message" >> :> Str(sLong)]

LokiError ==
  [kind |-> "loki",
   entry |-> << "ts" >> :> Str(IsoString(300)) @@ << "line" >> :> Str(sTimeoutTwice)
             @@ << "labels" >> :> Obj @@ << "labels", "job" >> :> Str(sSvc)
             @@ << "labels", "level" >> :> Str(sError)
             @@ << "labels", "environment" >> :> Str(sProd)]

TextError == [kind |-> "text", entry |-> << "line" >> :> Str(sTextLine)]

\* The entries the ingestion pipeline can deliver.
EntryPool == {PinoError, PinoInfo, WinstonBadDate, WinstonLong, LokiError, TextError}

\* A pool for the runs that evaluate boolean queries.
SmallPool == {PinoError, PinoInfo, LokiError}

MaxEntries == 3
MaxBatch == 2

\* The non-empty batches of at most MaxBatch entries of a pool.
Batches(from) == UNION {[1..n -> from] : n \in 1..MaxBatch}

Comparison(field, operator, value) ==
  [type |-> "ComparisonExpression", field |-> field, operator |-> operator,
   value |-> value,
   valueType |-> IF value.t = "str" THEN "string"
                 ELSE IF value.t = "bool" THEN "boolean" ELSE "number"]

Literal(value) == [type |-> "Literal", value |-> value, pattern |-> << >>, flags |-> << >>]

Call(function, field, argument) ==
  [type |-> "FunctionCall", field |-> field, function |-> function, argument |-> argument]

Not(expression) == [type |-> "NotExpression", expression |-> expression]

Binary(operator, left, right) ==
  [type |-> "BinaryExpression", operator |-> operator, left |-> left, right |-> right]

LevelIsError == Comparison("level", "=", Str(sError))
EnvIsProd == Comparison("environment", "=", Str(sProd))
ContainsTimeout == Call("contains", "message", Literal(Str(sTimeout)))
ContainsTime == Call("contains", "message", Literal(Str(sTime)))
HostnameIsNotWeb == Comparison("hostname", "!=", Str(sWeb))
HostnameContainsUndef == Call("contains", "hostname", Literal(Str(sUndef)))

sHostB == << "H", "o", "s", "t", "-", "B" >>
sTen == << "1", "0" >>

\* Ordering comparisons of a numeric field with a number and with a numeric
\* string, and of a string field with a string of another case and with a
\* number.
OrderingOperators == {">", "<", ">=", "<="}
OrderingQueries ==
  {Comparison(f, o, v) :
     f \in {"pid", "hostname"}, o \in OrderingOperators,
     v \in {Num(10), Str(sTen), Str(sHostB)}}

Regex(pattern, flags) ==
  [type |-> "RegexPattern", value |-> Undef, pattern |-> pattern, flags |-> flags]

sUnclosedGroup == << "(" >> \o sTimeout
sUnclosedClass == << "[" >> \o sTimeout

\* matches() with a pattern that compiles, with a flag that does not exist,
\* with a repeated flag, with an unclosed group, and with a literal argument
\* whose text has an unclosed class.
MatchesTimeout == Call("matches", "message", Regex(sTimeout, << "i" >>))
InvalidMatches ==
  {Call("matches", "message", Regex(sTimeout, << "x" >>)),
   Call("matches", "message", Regex(sTimeout, << "i", "i" >>)),
   Call("matches", "message", Regex(sUnclosedGroup, << >>)),
   Call("matches", "message", Literal(Str(sUnclosedClass)))}

MatchesQueries ==
  {MatchesTimeout, Not(MatchesTimeout)} \cup InvalidMatches
    \cup {Not(p) : p \in InvalidMatches}
    \cup {Binary("OR", LevelIsError, p) : p \in InvalidMatches}

TimestampOperators == {"=", ">", "<", ">=", "<="}
TimestampQueries == {Comparison("timestamp", o, Str(IsoString(200))) : o \in TimestampOperators}

Atoms ==
  {LevelIsError, EnvIsProd, ContainsTimeout, ContainsTime, HostnameIsNotWeb,
   HostnameContainsUndef} \cup TimestampQueries

\* The operands of the binary queries.
Operands == {LevelIsError, ContainsTime, Not(EnvIsProd)}

BooleanQueries ==
  {Not(p) : p \in Operands}
    \cup {Binary(o, p, q) : o \in {"AND", "OR"}, p \in Operands, q \in Operands}
    \cup {Not(Binary(o, LevelIsError, ContainsTime)) : o \in {"AND", "OR"}}

RangeBounds == {Null, Num(150), Num(200)}

NoQuery == [type |-> "none"]

\* ------------------------------------------------------------------------
\* Search text, JSON text and the free-text tokenizer
\* ------------------------------------------------------------------------

Quote == "\""

\* String.prototype.trim
RECURSIVE trimStart(_)
trimStart(s) == IF s # << >> /\ IsSpace(Head(s)) THEN trimStart(Tail(s)) ELSE s

RECURSIVE trimEnd(_)
trimEnd(s) ==
  IF s # << >> /\ IsSpace(s[Len(s)]) THEN trimEnd(SubSeq(s, 1, Len(s) - 1)) ELSE s

trim(s) == trimEnd(trimStart(s))

\* Array.prototype.join
RECURSIVE join(_, _)
join(parts, separator) ==
  IF parts = << >> THEN << >>
  ELSE IF Len(parts) = 1 THEN parts[1]
  ELSE parts[1] \o separator \o join(Tail(parts), separator)

\* The position of the first occurrence of p in s, 0 when there is none.
IndexOf(s, p) ==
  IF includes(s, p)
  THEN CHOOSE i \in 1..(Len(s) + 1) :
         MatchAt(s, p, i) /\ \A j \in 1..(i - 1) : ~MatchAt(s, p, j)
  ELSE 0

\* s.replace(p, '') with a string pattern: the first occurrence is removed.
RemoveFirst(s, p) ==
  LET i == IndexOf(s, p)
  IN IF i = 0 THEN s ELSE SubSeq(s, 1, i - 1) \o SubSeq(s, i + Len(p), Len(s))

\* The text of a property name.
NameChars(name) ==
  CASE name = "time" -> <<"t","i","m","e">>
    [] name = "level" -> <<"l","e","v","e","l">>
    [] name = "msg" -> <<"m","s","g">>
    [] name = "pid" -> <<"p","i","d">>
    [] name = "hostname" -> <<"h","o","s","t","n","a","m","e">>
    [] name = "name" -> <<"n","a","m","e">>
    [] name = "meta" -> <<"m","e","t","a">>
    [] name = "environment" -> <<"e","n","v","i","r","o","n","m","e","n","t">>
    [] name = "timestamp" -> <<"t","i","m","e","s","t","a","m","p">>
    [] name = "message" -> <<"m","e","s","s","a","g","e">>
    [] name = "ts" -> <<"t","s">>
    [] name = "line" -> <<"l","i","n","e">>
    [] name = "labels" -> <<"l","a","b","e","l","s">>
    [] name = "job" -> <<"j","o","b">>
    [] name = "kind" -> <<"k","i","n","d">>
    [] name = "entry" -> <<"e","n","t","r","y">>
    [] name = "searchText" -> <<"s","e","a","r","c","h","T","e","x","t">>

\* The order in which the properties of an entry were inserted, which is
\* the order JSON.stringify writes them in.
PropertyOrder ==
  << << "level" >>, << "time" >>, << "timestamp" >>, << "ts" >>, << "pid" >>,
     << "hostname" >>, << "name" >>, << "msg" >>, << "message" >>, << "line" >>,
     << "labels" >>, << "labels", "job" >>, << "labels", "level" >>,
     << "labels", "environment" >>, << "meta" >>, << "meta", "environment" >> >>

JsonString(s) == << Quote >> \o s \o << Quote >>

\* JSON.stringify of a primitive; the values of the model's strings need
\* no escaping.
JsonValue(v) ==
  CASE v.t = "str" -> JsonString(v.s)
    [] v.t = "num" -> NumToStr(v.n)
    [] v.t = "bool" -> String(v)
    [] OTHER -> <<"n","u","l","l">>

JsonLeaf(rec, path) ==
  JsonString(NameChars(path[Len(path)])) \o << ":" >> \o JsonValue(rec[path])

JsonNested(rec, head) ==
  LET inside(p) == Len(p) = 2 /\ p[1] = head /\ p \in DOMAIN rec /\ rec[p].t # "undef"
      members == SelectSeq(PropertyOrder, inside)
  IN << "{" >>
       \o join([i \in 1..Len(members) |-> JsonLeaf(rec, members[i])], << "," >>)
       \o << "}" >>

JsonObject(rec) ==
  LET top(p) == Len(p) = 1 /\ p \in DOMAIN rec /\ rec[p].t # "undef"
      members == SelectSeq(PropertyOrder, top)
      text(p) == IF rec[p].t = "obj"
                 THEN JsonString(NameChars(p[1])) \o << ":" >> \o JsonNested(rec, p[1])
                 ELSE JsonLeaf(rec, p)
  IN << "{" >>
       \o join([i \in 1..Len(members) |-> text(members[i])], << "," >>)
       \o << "}" >>

\* JSON.stringify(entry) of a parsed entry {kind, entry, searchText}
JsonStringify(parsed) ==
  << "{" >>
    \o JsonString(NameChars("kind")) \o << ":" >> \o JsonString(KindChars(parsed.kind))
    \o << "," >> \o JsonString(NameChars("entry")) \o << ":" >> \o JsonObject(parsed.entry)
    \o << "," >> \o JsonString(NameChars("searchText")) \o << ":" >>
    \o JsonString(parsed.searchText)
    \o << "}" >>

safeString(value) == IF IsNullish(value) THEN << >> ELSE String(value)

\* The parts of the search text: the kind, the fields of the kind, the
\* normalized level and environment, bare and tagged.
SearchTextParts(kind, fields, normalizedLevel, normalizedEnv) ==
  << KindChars(kind) >> \o fields
    \o << normalizedLevel, <<"l","e","v","e","l",":">> \o normalizedLevel,
          normalizedEnv, <<"e","n","v",":">> \o normalizedEnv >>

\* computeSearchText(entry) of the parse worker
computeSearchText(parsed) ==
  LET e == parsed.entry
      fields ==
        CASE parsed.kind = "pino" ->
               << safeString(Prop(e, "msg")), safeString(Prop(e, "hostname")),
                  safeString(Prop(e, "pid")), safeString(Prop(e, "name")),
                  safeString(Prop(e, "time")) >>
          [] parsed.kind = "winston" ->
               << safeString(Prop(e, "message")), safeString(Prop(e, "level")),
                  safeString(Sub(e, "meta", "requestId")),
                  safeString(Sub(e, "meta", "userId")) >>
          [] parsed.kind = "loki" ->
               << safeString(Prop(e, "line")), safeString(Sub(e, "labels", "job")),
                  safeString(Sub(e, "labels", "level")), safeString(Prop(e, "ts")) >>
          [] parsed.kind = "promtail" ->
               << safeString(Prop(e, "message")), safeString(Prop(e, "level")),
                  safeString(Prop(e, "ts")) >>
          [] parsed.kind = "docker" ->
               << safeString(Prop(e, "log")), safeString(Prop(e, "stream")),
                  safeString(Prop(e, "time")) >>
          [] parsed.kind = "text" -> << safeString(Prop(e, "line")) >>
          [] OTHER -> << JsonObject(e) >>
  IN toLowerCase(join(SearchTextParts(parsed.kind, fields, getNormalizedLevel(parsed),
                                      getNormalizedEnvironment(parsed)),
                      <<" ","|"," ">>))

\* The entry as the parse worker delivers it.
WithSearchText(parsed) ==
  [kind |-> parsed.kind, entry |-> parsed.entry, searchText |-> computeSearchText(parsed)]

\* The class [\s\-_.,;:/\\|()[\]{}<>"'] the tokenizer splits on.
IsSeparator(c) ==
  \/ IsSpace(c)
  \/ c \in {"-", "_", ".", ",", ";", ":", "/", "\\", "|", "(", ")", "[", "]",
            "{", "}", "<", ">", Quote, "'"}

\* s.split(/[...]+/).filter((token) => token.length > 0)
RECURSIVE SplitTokens(_, _, _)
SplitTokens(s, i, current) ==
  LET done == IF current = << >> THEN << >> ELSE << current >>
  IN IF i > Len(s) THEN done
     ELSE IF IsSeparator(s[i]) THEN done \o SplitTokens(s, i + 1, << >>)
     ELSE SplitTokens(s, i + 1, Append(current, s[i]))

Suffixes ==
  << <<"i","n","g">>, <<"l","y">>, <<"e","d">>, <<"i","e","s">>, <<"i","e","d">>,
     <<"i","e","s">>, <<"i","e","d">>, <<"s">>, <<"e","s">> >>

\* stemWordFallback(word): the first suffix that fits is stripped.
RECURSIVE StripFrom(_, _)
StripFrom(word, k) ==
  IF k > Len(Suffixes) THEN word
  ELSE IF endsWith(word, Suffixes[k]) /\ Len(word) > Len(Suffixes[k]) + 1
       THEN SubSeq(word, 1, Len(word) - Len(Suffixes[k]))
       ELSE StripFrom(word, k + 1)

stemWordFallback(word) == StripFrom(word, 1)

\* The position of the first quote of s at or after i, 0 when there is none.
RECURSIVE QuoteFrom(_, _)
QuoteFrom(s, i) ==
  IF i > Len(s) THEN 0 ELSE IF s[i] = Quote THEN i ELSE QuoteFrom(s, i + 1)

\* The matches of /"([^"]*)"/g in s from position i.
RECURSIVE PhraseMatches(_, _)
PhraseMatches(s, i) ==
  LET open == QuoteFrom(s, i)
      close == IF open = 0 THEN 0 ELSE QuoteFrom(s, open + 1)
  IN IF open = 0 \/ close = 0 THEN << >>
     ELSE << SubSeq(s, open, close) >> \o PhraseMatches(s, close + 1)

RECURSIVE RemoveAll(_, _)
RemoveAll(s, found) ==
  IF found = << >> THEN s ELSE RemoveAll(RemoveFirst(s, Head(found)), Tail(found))

\* tokenizeQueryFallback(query)
tokenizeQueryFallback(input) ==
  LET trimmed == toLowerCase(trim(input))
      found == PhraseMatches(trimmed, 1)
      inner == [i \in 1..Len(found) |-> trim(SubSeq(found[i], 2, Len(found[i]) - 1))]
      remainingQuery == RemoveAll(trimmed, found)
      words == SplitTokens(remainingQuery, 1, << >>)
  IN IF trimmed = << >> THEN [tokens |-> << >>, phrases |-> << >>]
     ELSE [tokens |-> [i \in 1..Len(words) |-> stemWordFallback(words[i])],
           phrases |-> inner]

\* ------------------------------------------------------------------------
\* The free-text matcher and its relevance score
\* ------------------------------------------------------------------------

\* tokenizeQuery and stemWord of the parse worker have the text of
\* tokenizeQueryFallback and stemWordFallback.
stemWord(word) == stemWordFallback(word)
tokenizeQuery(input) == tokenizeQueryFallback(input)

\* text[i] for a 0-based i: undefined past the end of the string.
CharAt(text, i) == IF i < Len(text) THEN text[i + 1] ELSE "undefined"

\* fuzzyMatch(text, query, maxDistance): the number of positions at which
\* the two strings differ, after the test of their lengths.
fuzzyMatch(text, query, maxDistance) ==
  LET maxLen == IF Len(text) > Len(query) THEN Len(text) ELSE Len(query)
      minLen == IF Len(text) > Len(query) THEN Len(query) ELSE Len(text)
      distance == Cardinality({i \in 0..(maxLen - 1) : CharAt(text, i) # CharAt(query, i)})
  IN /\ maxLen - minLen <= maxDistance
     /\ distance <= maxDistance

\* The token is found in the lowercased search text or fuzzy-matches one of
\* its words.
TokenFound(lowerSearch, words, token) ==
  \/ includes(lowerSearch, token)
  \/ \E k \in 1..Len(words) : Len(words[k]) >= 3 /\ fuzzyMatch(words[k], token, 1)

MatchesLowered(lowerSearch, tokens, phrases) ==
  /\ \A p \in 1..Len(phrases) : includes(lowerSearch, phrases[p])
  /\ \A t \in 1..Len(tokens) :
       TokenFound(lowerSearch, SplitTokens(lowerSearch, 1, << >>), tokens[t])

matchesQuery(searchText, tokens, phrases) ==
  MatchesLowered(toLowerCase(searchText), tokens, phrases)

\* new RegExp(token) throws "Nothing to repeat" for a token that begins with
\* a quantifier. The other tokens of the model are literal texts.
TokenRegExpThrows(token) == token # << >> /\ token[1] \in {"*", "+", "?"}

\* (s.match(new RegExp(token, 'g')) || []).length for a literal token
RECURSIVE Occurrences(_, _, _)
Occurrences(s, token, i) ==
  IF i + Len(token) - 1 > Len(s) THEN 0
  ELSE IF MatchAt(s, token, i) THEN 1 + Occurrences(s, token, i + Len(token))
       ELSE Occurrences(s, token, i + 1)

\* \b between the k-th and the (k+1)-th character of s
IsWordAt(s, k) == k >= 1 /\ k <= Len(s) /\ IsWordChar(s[k])
WordBoundary(s, k) == IsWordAt(s, k) # IsWordAt(s, k + 1)

\* new RegExp(`\\b${token}\\b`).test(s) for a literal token
WholeWordTest(s, token) ==
  \E i \in 1..Len(s) :
    /\ MatchAt(s, token, i)
    /\ WordBoundary(s, i - 1)
    /\ WordBoundary(s, i + Len(token) - 1)

TokenScore(lowerSearch, token) ==
  10 * Occurrences(lowerSearch, token, 1)
    + (IF WholeWordTest(lowerSearch, token) THEN 20 ELSE 0)
    + (IF startsWith(lowerSearch, token) THEN 15 ELSE 0)

RECURSIVE PhraseScore(_, _)
PhraseScore(searchText, phrases) ==
  IF phrases = << >> THEN 0
  ELSE (IF includes(searchText, Head(phrases)) THEN 100 ELSE 0)
         + PhraseScore(searchText, Tail(phrases))

RECURSIVE TokensScore(_, _)
TokensScore(lowerSearch, tokens) ==
  IF tokens = << >> THEN 0
  ELSE TokenScore(lowerSearch, Head(tokens)) + TokensScore(lowerSearch, Tail(tokens))

\* calculateRelevance(searchText, tokens, phrases): the score, or the
\* SyntaxError of the first token that does not compile.
calculateRelevance(searchText, tokens, phrases) ==
  IF \E t \in 1..Len(tokens) : TokenRegExpThrows(tokens[t])
  THEN [threw |-> TRUE, score |-> 0]
  ELSE [threw |-> FALSE,
        score |-> PhraseScore(searchText, phrases)
                    + TokensScore(toLowerCase(searchText), tokens)]

\* The fallback copies in FileParseService have the same text.
fuzzyMatchFallback(text, query, maxDistance) == fuzzyMatch(text, query, maxDistance)
matchesQueryFallback(searchText, tokens, phrases) == matchesQuery(searchText, tokens, phrases)
calculateRelevanceFallback(searchText, tokens, phrases) ==
  calculateRelevance(searchText, tokens, phrases)

\* .sort((a, b) => b.score - a.score): stable, highest score first.
RECURSIVE InsertByScore(_, _)
InsertByScore(sorted, x) ==
  IF sorted = << >> THEN << x >>
  ELSE IF x.score > Head(sorted).score
       THEN << x >> \o sorted
       ELSE << Head(sorted) >> \o InsertByScore(Tail(sorted), x)

RECURSIVE SortByScore(_)
SortByScore(scored) ==
  IF scored = << >> THEN << >>
  ELSE InsertByScore(SortByScore(SubSeq(scored, 1, Len(scored) - 1)), scored[Len(scored)])

\* allEntries.map(...).filter(result !== null): the matching entries with
\* their scores, in store order.
ScoredMatches(all, tokens, phrases) ==
  LET hit == SelectSeq(all, LAMBDA e : matchesQuery(e.searchText, tokens, phrases))
  IN [i \in 1..Len(hit) |->
        [entry |-> hit[i],
         score |-> calculateRelevance(hit[i].searchText, tokens, phrases).score]]

\* calculateRelevance throws for some entry that matches.
ScoringThrows(all, tokens, phrases) ==
  /\ \E t \in 1..Len(tokens) : TokenRegExpThrows(tokens[t])
  /\ \E i \in 1..Len(all) : matchesQuery(all[i].searchText, tokens, phrases)

EntriesOf(scored) == [i \in 1..Len(scored) |-> scored[i].entry]

sNothingToRepeat ==
  <<"N","o","t","h","i","n","g"," ","t","o"," ","r","e","p","e","a","t">>

SearchReply(type, normalized, list, message) ==
  [type |-> type, query |-> normalized, entries |-> list, error |-> message]

\* handleSearchMessage(msg) over the worker's allEntries: the message it
\* posts after search-start.
RepliedTo(all, normalized, tokens, phrases) ==
  IF normalized = << >> \/ (tokens = << >> /\ phrases = << >>)
  THEN SearchReply("search-result", normalized, all, << >>)
  ELSE IF ScoringThrows(all, tokens, phrases)
  THEN SearchReply("search-error", normalized, << >>, sNothingToRepeat)
  ELSE SearchReply("search-result", normalized,
                   EntriesOf(SortByScore(ScoredMatches(all, tokens, phrases))), << >>)

handleSearchMessage(all, raw) ==
  LET tokenized == tokenizeQuery(toLowerCase(trim(raw)))
  IN RepliedTo(all, toLowerCase(trim(raw)), tokenized.tokens, tokenized.phrases)

\* ------------------------------------------------------------------------
\* The query parser
\* ------------------------------------------------------------------------

sMalformed == <<"l","e","v","e","l","=","=","=","e","r","r","o","r">>
sLevelIsError == <<"l","e","v","e","l","=","e","r","r","o","r">>
sUnexpected ==
  <<"U","n","e","x","p","e","c","t","e","d"," ","t","o","k","e","n">>

NoAst == [type |-> "null"]

\* The results parseQuery(input) can have. The empty input and an input
\* without query syntax are a free-text search with a null AST; a
\* well-formed query has an AST and no errors; a malformed query has errors
\* and a null or a partial AST.
parseQuery(input) ==
  LET text == trim(input) IN
  IF text = sLevelIsError
  THEN {[ast |-> LevelIsError, isLegacyTextSearch |-> FALSE, errors |-> << >>]}
  ELSE IF text = sMalformed
  THEN {[ast |-> a, isLegacyTextSearch |-> FALSE,
         errors |-> << [message |-> sUnexpected] >>] : a \in {NoAst, LevelIsError}}
  ELSE {[ast |-> NoAst, isLegacyTextSearch |-> TRUE, errors |-> << >>]}

\* ------------------------------------------------------------------------
\* The indexer and the evaluator over one entry store
\* ------------------------------------------------------------------------

VARIABLES
  pool,         \* the entries the ingestion pipeline can deliver in this run
  entries,      \* the entry store, in arrival order
  indexes,      \* FieldIndexer.indexes
  lastOp,       \* the operation that produced this state
  batchStart,   \* the index of the first entry of the batch just indexed
  query,        \* the AST (or range) just evaluated
  context,      \* [hasIndexer, revision] of that evaluation
  matched,      \* its matchedIndices
  retained,     \* the matchedIndices array a caller has kept
  selectedFile,           \* FileParseService: whether a file is selected
  worker,                 \* "null" or "live"
  isParsing,
  allEntries,
  filterQuery,
  filteredEntries,        \* a list or null
  lastSearchResultCount,
  error,
  isSearching,
  searchCache,
  fallbackIndexer,        \* the indexes of the service's FieldIndexer
  posted,                 \* the message last posted to the worker
  searchQuery,            \* SearchService._query
  searchFilteredEntries,  \* SearchService._filteredEntries
  searchResultCount,      \* SearchService._lastSearchResultCount
  effectPending,          \* the effect of SearchService is due to run
  parsedQuery,            \* what parseQuery returned to the last search
  ran,                    \* what that search ran: evaluateQuery, free text
  parsedLines,            \* the worker: lines parsed and pushed to its allEntries
  batchedLines,           \* the worker: lines posted in batches
  inbox                   \* messages the worker posted, not handled yet

serviceVars ==
  << selectedFile, worker, isParsing, allEntries, filterQuery, filteredEntries,
     lastSearchResultCount, error, isSearching, searchCache, fallbackIndexer, posted,
     searchQuery, searchFilteredEntries, searchResultCount, effectPending,
     parsedQuery, ran, parsedLines, batchedLines, inbox >>

vars == << pool, entries, indexes, lastOp, batchStart, query, context, matched,
           retained, serviceVars >>

NullList == [isNull |-> TRUE, list |-> << >>]
List(list) == [isNull |-> FALSE, list |-> list]

NoParse ==
  [called |-> FALSE, ast |-> NoAst, isLegacyTextSearch |-> FALSE, errors |-> << >>]
Parsed(result) ==
  [called |-> TRUE, ast |-> result.ast, isLegacyTextSearch |-> result.isLegacyTextSearch,
   errors |-> result.errors]

NoContext == [hasIndexer |-> FALSE, revision |-> "none"]

\* The array object a caller keeps of an evaluation. queryByLevel and
\* queryByEnvironment return the list stored in the map, so the array is
\* either that list of the indexer (alias, key) or an array of its own.
NotRetained == [alias |-> "none", key |-> << >>, atReturn |-> << >>, own |-> << >>]

\* Which array evaluateNode returns: the map's list when the comparison is
\* answered by queryByLevel/queryByEnvironment and the map has the key
\* (`get(key) || []`), a new array in every other case.
ReturnedArray(node, hasIndexer, ix) ==
  IF node.type = "ComparisonExpression" /\ hasIndexer /\ node.operator = "="
  THEN IF node.field = "level"
       THEN IF String(node.value) \in DOMAIN ix.byLevel THEN "byLevel" ELSE "own"
       ELSE IF node.field = "environment"
       THEN IF String(node.value) \in DOMAIN ix.byEnvironment
            THEN "byEnvironment" ELSE "own"
       ELSE "own"
  ELSE "own"

\* The present contents of the kept array.
RetainedNow ==
  IF retained.alias = "byLevel" THEN MapGet(indexes.byLevel, retained.key)
  ELSE IF retained.alias = "byEnvironment"
  THEN MapGet(indexes.byEnvironment, retained.key)
  ELSE retained.own

\* this.indexes = this.createEmptyIndexes(): the maps are replaced, a kept
\* list is no longer the indexer's and keeps the contents it has.
Detached ==
  [retained EXCEPT !.alias = IF @ = "none" THEN "none" ELSE "own",
                   !.own = RetainedNow]

InitWith(from) ==
  /\ pool = from
  /\ entries = << >>
  /\ indexes = createEmptyIndexes
  /\ lastOp = "new"
  /\ batchStart = 0
  /\ query = NoQuery
  /\ context = NoContext
  /\ matched = << >>
  /\ retained = NotRetained
  /\ selectedFile = FALSE
  /\ worker = "null"
  /\ isParsing = FALSE
  /\ allEntries = << >>
  /\ filterQuery = << >>
  /\ filteredEntries = NullList
  /\ lastSearchResultCount = Null
  /\ error = Null
  /\ isSearching = FALSE
  /\ searchCache = EmptyMap
  /\ fallbackIndexer = createEmptyIndexes
  /\ posted = [type |-> "none", query |-> << >>]
  /\ searchQuery = << >>
  /\ searchFilteredEntries = NullList
  /\ searchResultCount = Null
  /\ effectPending = TRUE
  /\ parsedQuery = NoParse
  /\ ran = {}
  /\ parsedLines = 0
  /\ batchedLines = 0
  /\ inbox = << >>

Init == InitWith(EntryPool)
InitBoolean == InitWith(SmallPool)

\* Evaluation is synchronous: a store or index operation starts when no
\* result is held (Idle), and leaves none.
Idle == query = NoQuery

NoEvaluation ==
  /\ query' = NoQuery
  /\ context' = NoContext
  /\ matched' = << >>
  /\ UNCHANGED << pool, serviceVars >>

\* The ingestion pipeline appends a batch to the store; nothing is indexed.
ReceiveBatch ==
  \E batch \in Batches(pool) :
    /\ Idle
    /\ Len(entries) + Len(batch) <= MaxEntries
    /\ entries' = entries \o batch
    /\ lastOp' = "receive"
    /\ batchStart' = 0
    /\ UNCHANGED << indexes, retained >>
    /\ NoEvaluation

\* A buildIndexes that indexes the entries into the indexes it holds.
BuildIndexesWithoutWipe ==
  /\ Idle
  /\ indexes' \in {[added EXCEPT !.totalEntries = Len(entries)] :
                     added \in addBatch(indexes, entries, 0)}
  /\ lastOp' = "buildIndexes"
  /\ batchStart' = 0
  /\ retained' = Detached
  /\ UNCHANGED entries
  /\ NoEvaluation

BuildIndexes ==
  /\ Idle
  /\ indexes' \in buildIndexes(entries)
  /\ lastOp' = "buildIndexes"
  /\ batchStart' = 0
  /\ retained' = Detached
  /\ UNCHANGED entries
  /\ NoEvaluation

\* A batch is appended to the store and indexed from its first index.
AddBatch ==
  \E batch \in Batches(pool) :
    /\ Idle
    /\ Len(entries) + Len(batch) <= MaxEntries
    /\ entries' = entries \o batch
    /\ indexes' \in addBatch(indexes, batch, Len(entries))
    /\ lastOp' = "addBatch"
    /\ batchStart' = Len(entries)
    /\ UNCHANGED retained
    /\ NoEvaluation

\* One entry is appended to the store and indexed.
AddEntry ==
  \E entry \in pool :
    /\ Idle
    /\ Len(entries) + 1 <= MaxEntries
    /\ entries' = Append(entries, entry)
    /\ indexes' = addEntry(indexes, entry, Len(entries))
    /\ lastOp' = "addEntry"
    /\ batchStart' = Len(entries)
    /\ UNCHANGED retained
    /\ NoEvaluation

Clear ==
  /\ Idle
  /\ indexes' = createEmptyIndexes
  /\ lastOp' = "clear"
  /\ batchStart' = 0
  /\ retained' = Detached
  /\ UNCHANGED entries
  /\ NoEvaluation

\* evaluateQuery(ast, {entries, indexer}): the result is held until the
\* caller has taken it (Return).
EvaluateIn(asts, revisions) ==
  \E ast \in asts, hasIndexer \in BOOLEAN, revision \in revisions :
    /\ Idle
    /\ query' = ast
    /\ context' = [hasIndexer |-> hasIndexer, revision |-> revision]
    /\ matched' = evaluateQuery(ast, [entries |-> entries, hasIndexer |-> hasIndexer,
                                      indexer |-> indexes, revision |-> revision])
    /\ UNCHANGED << pool, entries, indexes, lastOp, batchStart, retained, serviceVars >>

EvaluateAtom == EvaluateIn(Atoms, {"extractor", "inline"})
EvaluateBoolean == EvaluateIn(BooleanQueries, {"inline"})

QueryTimestampRange ==
  \E startMs \in RangeBounds, endMs \in RangeBounds :
    /\ Idle
    /\ query' = [type |-> "queryTimestampRange", startMs |-> startMs, endMs |-> endMs]
    /\ context' = NoContext
    /\ matched' = queryTimestampRange(indexes, startMs, endMs)
    /\ UNCHANGED << pool, entries, indexes, lastOp, batchStart, retained, serviceVars >>

\* The caller takes the result of the evaluation or of the range query.
Return ==
  /\ query # NoQuery
  /\ query' = NoQuery
  /\ context' = NoContext
  /\ matched' = << >>
  /\ UNCHANGED << pool, entries, indexes, lastOp, batchStart, retained, serviceVars >>

Next ==
  \/ ReceiveBatch
  \/ BuildIndexes
  \/ AddBatch
  \/ AddEntry
  \/ Clear
  \/ EvaluateAtom
  \/ QueryTimestampRange
  \/ Return

Spec == Init /\ [][Next]_vars

NextBoolean ==
  \/ AddBatch
  \/ Clear
  \/ EvaluateBoolean
  \/ Return

SpecBoolean == InitBoolean /\ [][NextBoolean]_vars

EvaluateMatches == EvaluateIn(MatchesQueries, {"extractor", "inline"})

NextMatches ==
  \/ AddBatch
  \/ Clear
  \/ EvaluateMatches
  \/ Return

\* Evaluation of matches() predicates, alone and inside NOT and OR.
SpecMatches == InitBoolean /\ [][NextMatches]_vars

EvaluateOrdering == EvaluateIn(OrderingQueries, {"extractor", "inline"})

NextOrdering ==
  \/ ReceiveBatch
  \/ EvaluateOrdering
  \/ Return

\* Full scans of ordering comparisons over a growing store.
SpecOrdering == InitBoolean /\ [][NextOrdering]_vars

\* The words the matcher is tried on, and the search texts that hold them.
sDatabse == <<"d","a","t","a","b","s","e">>
sDatabase == <<"d","a","t","a","b","a","s","e">>
sDisk == <<"d","i","s","k">>
MatcherWords == {sDatabse, sDisk}
MatcherTexts ==
  UNION {{w, <<"t","h","e"," ">> \o w \o <<" ","i","s"," ","d","o","w","n">>,
          <<"e","r","r","o","r"," ","|"," ">> \o w} : w \in MatcherWords}

\* The strings one substitution, one insertion or one deletion away from w.
EditLetters == {"a", "k", "x"}
Substitutions(w) ==
  {[w EXCEPT ![i] = c] : i \in 1..Len(w), c \in EditLetters}
Insertions(w) ==
  {SubSeq(w, 1, i) \o << c >> \o SubSeq(w, i + 1, Len(w)) :
     i \in 0..Len(w), c \in EditLetters}
Deletions(w) ==
  {SubSeq(w, 1, i - 1) \o SubSeq(w, i + 1, Len(w)) : i \in 1..Len(w)}
MatcherTokens ==
  UNION {Substitutions(w) \cup Insertions(w) \cup Deletions(w) : w \in MatcherWords}

\* matchesQuery(searchText, [token], []) is called.
MatchToken ==
  \E text \in MatcherTexts, token \in MatcherTokens :
    /\ query' = [type |-> "matchesQuery", searchText |-> text, token |-> token]
    /\ context' = NoContext
    /\ matched' = IF matchesQuery(text, << token >>, << >>) THEN << 0 >> ELSE << >>
    /\ UNCHANGED << pool, entries, indexes, lastOp, batchStart, retained, serviceVars >>

\* The free-text matcher applied to one search text and one token.
SpecMatcher == InitBoolean /\ [][MatchToken]_vars

\* The caller keeps the matchedIndices array of the evaluation.
Keep ==
  /\ query.type \in {"ComparisonExpression", "FunctionCall"}
  /\ retained' = [alias |-> ReturnedArray(query, context.hasIndexer, indexes),
                  key |-> IF query.type = "ComparisonExpression"
                          THEN String(query.value) ELSE << >>,
                  atReturn |-> matched,
                  own |-> matched]
  /\ query' = NoQuery
  /\ context' = NoContext
  /\ matched' = << >>
  /\ UNCHANGED << pool, entries, indexes, lastOp, batchStart, serviceVars >>

\* The service's use of its FieldIndexer: the store is filled, buildIndexes
\* indexes it, and from then on every entry appended to the store is added
\* to the indexer once, by addBatch or by addEntry.
IndexerCoversStore == lastOp \in {"buildIndexes", "addBatch", "addEntry"}

ReceiveBeforeBuild == ~IndexerCoversStore /\ ReceiveBatch
AddBatchAfterBuild == IndexerCoversStore /\ AddBatch
AddEntryAfterBuild == IndexerCoversStore /\ AddEntry

NextCovering ==
  \/ ReceiveBeforeBuild
  \/ BuildIndexes
  \/ AddBatchAfterBuild
  \/ AddEntryAfterBuild

SpecCovering == InitBoolean /\ [][NextCovering]_vars

\* The evaluations whose result the caller keeps.
EvaluateKept ==
  EvaluateIn({LevelIsError, EnvIsProd, ContainsTimeout}, {"extractor", "inline"})

NextRetained ==
  \/ BuildIndexes
  \/ AddBatch
  \/ AddEntry
  \/ Clear
  \/ EvaluateKept
  \/ Keep

\* An evaluator caller that keeps results across index updates.
SpecRetained == InitBoolean /\ [][NextRetained]_vars

\* ------------------------------------------------------------------------
\* FileParseService and SearchService
\* ------------------------------------------------------------------------

sNoFileSelected ==
  <<"N","o"," ","f","i","l","e"," ","s","e","l","e","c","t","e","d",".">>
sPaddedPhrase == << " ", Quote, "D", "b", Quote, " ", "f", "u", "l", "l", "s", " " >>
sMalformedSeen ==
  <<"s","a","w"," ","l","e","v","e","l","=","=","=","e","r","r","o","r">>

TextMalformed == [kind |-> "text", entry |-> << "line" >> :> Str(sMalformedSeen)]

\* The entries of the selected file, in the order of its lines, as the
\* parse worker delivers them.
ParsedFile ==
  << WithSearchText(PinoError), WithSearchText(TextMalformed), WithSearchText(LokiError) >>

\* The queries the user types.
QueryInputs == {<< >>, sPaddedPhrase, sLevelIsError, sMalformed}

NoMessage == [type |-> "none", query |-> << >>]

\* JSON.stringify(entry).toLowerCase() of the entries of the file
JsonText == [parsed \in Range(ParsedFile) |-> toLowerCase(JsonStringify(parsed))]

MapSet(m, key, value) == [k \in (DOMAIN m) \cup {key} |-> IF k = key THEN value ELSE m[k]]

\* matchedIndices.map((idx) => allEntries[idx])
EntriesAt(list, indices) == [i \in 1..Len(indices) |-> list[indices[i] + 1]]

\* The pool is the parsed file: the worker delivers its entries in order.
InitService == InitWith(ParsedFile)

ServiceIdle(op) ==
  /\ lastOp' = op
  /\ UNCHANGED << pool, entries, indexes, batchStart, query, context, matched,
                  retained >>

NotSearching ==
  /\ parsedQuery' = NoParse
  /\ ran' = {}

\* A reset that terminates the worker and keeps allEntries.
ResetKeepingEntries ==
  /\ worker' = "null"
  /\ searchCache' = EmptyMap
  /\ error' = Null
  /\ isParsing' = FALSE
  /\ allEntries' = allEntries
  /\ filterQuery' = << >>
  /\ filteredEntries' = NullList
  /\ isSearching' = FALSE
  /\ lastSearchResultCount' = Null
  /\ posted' = NoMessage
  /\ effectPending' = TRUE
  /\ parsedLines' = 0
  /\ batchedLines' = 0
  /\ inbox' = << >>

\* reset()
Reset ==
  /\ worker' = "null"
  /\ searchCache' = EmptyMap
  /\ error' = Null
  /\ isParsing' = FALSE
  /\ allEntries' = << >>
  /\ filterQuery' = << >>
  /\ filteredEntries' = NullList
  /\ isSearching' = FALSE
  /\ lastSearchResultCount' = Null
  /\ posted' = NoMessage
  /\ effectPending' = TRUE
  /\ parsedLines' = 0
  /\ batchedLines' = 0
  /\ inbox' = << >>

\* setFile(file), with a file or with null
SetFile ==
  \E file \in BOOLEAN :
    /\ ~effectPending
    /\ Reset
    /\ selectedFile' = IF file THEN TRUE ELSE selectedFile
    /\ UNCHANGED << fallbackIndexer, searchQuery, searchFilteredEntries, searchResultCount >>
    /\ NotSearching
    /\ ServiceIdle("setFile")

\* startParse(): without a file an error is published; with one, the
\* results are emptied and a new worker replaces the old one.
StartParse ==
  /\ ~effectPending
  /\ IF ~selectedFile
     THEN /\ error' = Str(sNoFileSelected)
          /\ UNCHANGED << worker, searchCache, isParsing, allEntries, filterQuery,
                          filteredEntries, isSearching, lastSearchResultCount, posted,
                          effectPending, parsedLines, batchedLines, inbox >>
     ELSE /\ searchCache' = EmptyMap
          /\ error' = Null
          /\ isParsing' = TRUE
          /\ allEntries' = << >>
          /\ filterQuery' = << >>
          /\ filteredEntries' = NullList
          /\ isSearching' = FALSE
          /\ lastSearchResultCount' = Null
          /\ worker' = "live"
          /\ posted' = NoMessage
          /\ effectPending' = TRUE
          /\ parsedLines' = 0
          /\ batchedLines' = 0
          /\ inbox' = << >>
  /\ UNCHANGED << selectedFile, fallbackIndexer, searchQuery, searchFilteredEntries,
                  searchResultCount >>
  /\ NotSearching
  /\ ServiceIdle("startParse")

\* worker.onmessage, msg.type === 'batch': the next lines of the file
WorkerBatch ==
  \E n \in 1..MaxBatch :
    LET delivered == SubSeq(pool, Len(allEntries) + 1, Len(allEntries) + n) IN
    /\ ~effectPending
    /\ worker = "live"
    /\ isParsing
    /\ Len(allEntries) + n <= Len(pool)
    /\ allEntries' = allEntries \o delivered
    /\ filteredEntries' = IF filterQuery = << >>
                          THEN List(filteredEntries.list \o delivered)
                          ELSE filteredEntries
    /\ effectPending' = TRUE
    /\ UNCHANGED << selectedFile, worker, isParsing, filterQuery, lastSearchResultCount,
                    error, isSearching, searchCache, fallbackIndexer, posted,
                    searchQuery, searchFilteredEntries, searchResultCount,
                    parsedLines, batchedLines, inbox >>
    /\ NotSearching
    /\ ServiceIdle("batch")

\* worker.onmessage, msg.type === 'done', after the last batch
WorkerDone ==
  /\ ~effectPending
  /\ worker = "live"
  /\ isParsing
  /\ Len(allEntries) = Len(pool)
  /\ isParsing' = FALSE
  /\ filteredEntries' = IF filterQuery = << >> /\ filteredEntries.isNull
                        THEN List(allEntries)
                        ELSE filteredEntries
  /\ UNCHANGED << selectedFile, worker, allEntries, filterQuery, lastSearchResultCount,
                  error, isSearching, searchCache, fallbackIndexer, posted, searchQuery,
                  searchFilteredEntries, searchResultCount, effectPending,
                  parsedLines, batchedLines, inbox >>
  /\ NotSearching
  /\ ServiceIdle("done")

\* The main-thread path of setFilterQuery, structured query without errors
EvaluateOnMainThread(normalized, result, revision) ==
  \E ix \in IF fallbackIndexer.totalEntries # Len(allEntries)
            THEN buildIndexes(allEntries)
            ELSE {fallbackIndexer} :
    \E evaluated \in {evaluateQuery(result.ast,
                          [entries |-> allEntries, hasIndexer |-> TRUE, indexer |-> ix,
                           revision |-> revision])} :
      \E filtered \in {EntriesAt(allEntries, evaluated)} :
        /\ fallbackIndexer' = ix
        /\ filteredEntries' = List(filtered)
        /\ lastSearchResultCount' = Num(Len(filtered))
        /\ searchCache' = MapSet(searchCache, toLowerCase(normalized), filtered)
        /\ ran' = {"evaluateQuery"}
        /\ UNCHANGED error

\* The score of an entry that the matcher rejects when `unknown` is asked
\* for: hit when its level or environment is unknown or its search text
\* holds the word.
UnknownHit(lvl, env, search) ==
  [hit |-> lvl = sUnknown \/ env = sUnknown \/ includes(search, sUnknown),
   score |-> 30 + (IF lvl = sUnknown THEN 10 ELSE 0) + (IF env = sUnknown THEN 10 ELSE 0)]

\* One entry of the scoring pass of the main thread.
ScoreOnMainThread(parsed, tokens, phrases, unknownRequested) ==
  IF matchesQueryFallback(parsed.searchText, tokens, phrases)
  THEN [hit |-> TRUE,
        score |-> calculateRelevanceFallback(parsed.searchText, tokens, phrases).score]
  ELSE IF unknownRequested
  THEN UnknownHit(normalizeLogLevel(parsed), normalizeEnvironment(parsed),
                  parsed.searchText)
  ELSE [hit |-> FALSE, score |-> 0]

\* scoredResults of the main thread, in store order.
ScoredOnMainThread(all, tokens, phrases, unknownRequested) ==
  LET hits == SelectSeq(all, LAMBDA e :
                ScoreOnMainThread(e, tokens, phrases, unknownRequested).hit)
  IN [i \in 1..Len(hits) |->
        [entry |-> hits[i],
         score |-> ScoreOnMainThread(hits[i], tokens, phrases, unknownRequested).score]]

\* The main-thread path of setFilterQuery, free-text search. The entries
\* carry the searchText the worker computed, so every pass of the loop over
\* allEntries scores the same entries; with allEntries empty the loop has no
\* pass and only the cache is written. A RegExp that does not compile throws
\* out of setFilterQuery from the first pass.
FreeTextOnMainThread(normalized) ==
  \E tokenized \in {tokenizeQueryFallback(toLowerCase(normalized))} :
    \E unknownRequested \in {sUnknown \in Range(tokenized.tokens)} :
      \E wanted \in {SelectSeq(tokenized.tokens, LAMBDA t : t # sUnknown)} :
        /\ IF tokenized.tokens = << >> /\ tokenized.phrases = << >> /\ ~unknownRequested
           THEN /\ filteredEntries' = List(allEntries)
                /\ lastSearchResultCount' = Num(Len(allEntries))
                /\ ran' = {"freeText"}
                /\ UNCHANGED searchCache
           ELSE IF allEntries = << >>
           THEN /\ UNCHANGED filteredEntries
                /\ lastSearchResultCount' = Null
                /\ searchCache' = MapSet(searchCache, normalized, filteredEntries.list)
                /\ ran' = {"freeText"}
           ELSE IF ScoringThrows(allEntries, wanted, tokenized.phrases)
           THEN /\ lastSearchResultCount' = Null
                /\ ran' = {"freeText", "threw"}
                /\ UNCHANGED << filteredEntries, searchCache >>
           ELSE \E filtered \in
                     {EntriesOf(SortByScore(ScoredOnMainThread(
                        allEntries, wanted, tokenized.phrases, unknownRequested)))} :
                  /\ filteredEntries' = List(filtered)
                  /\ lastSearchResultCount' = Num(Len(filtered))
                  /\ searchCache' = MapSet(searchCache, normalized, filtered)
                  /\ ran' = {"freeText"}
        /\ UNCHANGED << error, fallbackIndexer >>

MainThreadSearch(normalized) ==
  IF normalized = << >>
  THEN /\ filteredEntries' = List(allEntries)
       /\ lastSearchResultCount' = Num(Len(allEntries))
       /\ NotSearching
       /\ UNCHANGED << error, searchCache, fallbackIndexer >>
  ELSE \E result \in parseQuery(normalized), revision \in {"extractor", "inline"} :
         /\ parsedQuery' = Parsed(result)
         /\ IF ~result.isLegacyTextSearch /\ result.ast # NoAst
            THEN IF Len(result.errors) > 0
                 THEN /\ error' = Str(join([i \in 1..Len(result.errors) |->
                                              result.errors[i].message], <<";"," ">>))
                      /\ filteredEntries' = List(<< >>)
                      /\ lastSearchResultCount' = Num(0)
                      /\ ran' = {}
                      /\ UNCHANGED << searchCache, fallbackIndexer >>
                 ELSE EvaluateOnMainThread(normalized, result, revision)
            ELSE FreeTextOnMainThread(normalized)

\* setFilterQuery(query)
SetFilterQueryOf(inputs) ==
  \E input \in inputs :
    LET normalized == trim(input)
        key == toLowerCase(normalized)
    IN /\ ~effectPending
       /\ filterQuery' = key
       /\ IF key \in DOMAIN searchCache
          THEN /\ filteredEntries' = List(searchCache[key])
               /\ lastSearchResultCount' = Num(Len(searchCache[key]))
               /\ NotSearching
               /\ UNCHANGED << error, searchCache, fallbackIndexer, posted, isSearching >>
          ELSE IF worker = "null"
          THEN /\ MainThreadSearch(normalized)
               /\ UNCHANGED << posted, isSearching >>
          ELSE /\ posted' = [type |-> "search", query |-> normalized]
               /\ isSearching' = TRUE
               /\ lastSearchResultCount' = Null
               /\ NotSearching
               /\ UNCHANGED << filteredEntries, error, searchCache, fallbackIndexer >>
       /\ UNCHANGED << selectedFile, worker, isParsing, allEntries, searchQuery,
                       searchFilteredEntries, searchResultCount, effectPending,
                       parsedLines, batchedLines, inbox >>
       /\ ServiceIdle("setFilterQuery")

SetFilterQuery == SetFilterQueryOf(QueryInputs)

\* SearchService.setQuery(query): the effect is due when the query differs.
SetQuery ==
  \E input \in QueryInputs :
    /\ ~effectPending
    /\ searchQuery' = input
    /\ effectPending' = (input # searchQuery)
    /\ UNCHANGED << selectedFile, worker, isParsing, allEntries, filterQuery,
                    filteredEntries, lastSearchResultCount, error, isSearching,
                    searchCache, fallbackIndexer, posted, searchFilteredEntries,
                    searchResultCount, parsedLines, batchedLines, inbox >>
    /\ NotSearching
    /\ ServiceIdle("setQuery")

\* The effect of SearchService: executeQuery(query). It is due after
\* construction and whenever the query or allEntries changed, and runs
\* before the next event is handled.
ExecuteQuery ==
  LET normalized == toLowerCase(trim(searchQuery))
      contained(parsed) == includes(JsonText[parsed], normalized)
  IN /\ effectPending
     /\ effectPending' = FALSE
     /\ IF normalized = << >>
        THEN /\ searchFilteredEntries' = List(allEntries)
             /\ searchResultCount' = Num(Len(allEntries))
             /\ NotSearching
        ELSE \E result \in parseQuery(normalized), revision \in {"extractor", "inline"} :
               /\ parsedQuery' = Parsed(result)
               /\ IF ~result.isLegacyTextSearch /\ result.ast # NoAst
                  THEN IF Len(result.errors) > 0
                       THEN /\ searchFilteredEntries' = List(<< >>)
                            /\ searchResultCount' = Num(0)
                            /\ ran' = {}
                       ELSE \E evaluated \in
                                 {evaluateQuery(result.ast,
                                    [entries |-> allEntries, hasIndexer |-> FALSE,
                                     indexer |-> createEmptyIndexes,
                                     revision |-> revision])} :
                              \E filtered \in {EntriesAt(allEntries, evaluated)} :
                                /\ searchFilteredEntries' = List(filtered)
                                /\ searchResultCount' = Num(Len(filtered))
                                /\ ran' = {"evaluateQuery"}
                  ELSE LET filtered == SelectSeq(allEntries, contained)
                       IN /\ searchFilteredEntries' = List(filtered)
                          /\ searchResultCount' = Num(Len(filtered))
                          /\ ran' = {"freeText"}
     /\ UNCHANGED << selectedFile, worker, isParsing, allEntries, filterQuery,
                     filteredEntries, lastSearchResultCount, error, isSearching,
                     searchCache, fallbackIndexer, posted, searchQuery,
                     parsedLines, batchedLines, inbox >>
     /\ ServiceIdle("executeQuery")

NextService ==
  \/ SetFile
  \/ StartParse
  \/ WorkerBatch
  \/ WorkerDone
  \/ SetFilterQuery
  \/ SetQuery
  \/ ExecuteQuery

SpecService == InitService /\ [][NextService]_vars

\* ------------------------------------------------------------------------
\* The parse worker and its messages
\* ------------------------------------------------------------------------

\* BATCH_SIZE: the worker posts a batch when this many entries wait.
BatchSize == 2
\* The worker runs on while at most this many of its messages wait.
MaxInbox == 4

sStarTimeout == << "*", "i", "m", "e", "o", "u", "t" >>

\* The queries typed while the worker is alive.
WorkerQueryInputs == {<< >>, sTimeout, sStarTimeout}

Message(type, normalized, list, message) ==
  [type |-> type, query |-> normalized, entries |-> list, error |-> message]
BatchMessage(list) == Message("batch", << >>, list, << >>)
DoneMessage == Message("done", << >>, << >>, << >>)

\* The batches of BatchSize entries posted while lines from..to wait.
RECURSIVE FullBatches(_, _, _)
FullBatches(file, from, to) ==
  IF to - from < BatchSize THEN << >>
  ELSE << BatchMessage(SubSeq(file, from + 1, from + BatchSize)) >>
         \o FullBatches(file, from + BatchSize, to)

\* The worker reads the next chunk of the file: each line is parsed and
\* pushed to its allEntries, a batch is posted whenever BatchSize entries
\* wait; after the last chunk the rest is posted and then done.
WorkerChunk ==
  \E n \in 1..MaxBatch :
    /\ ~effectPending
    /\ worker = "live"
    /\ parsedLines + n <= Len(pool)
    /\ \E full \in {FullBatches(pool, batchedLines, parsedLines + n)} :
         \E sent \in {batchedLines + BatchSize * Len(full)} :
           /\ inbox' =
                inbox \o full
                  \o (IF parsedLines + n = Len(pool)
                      THEN (IF sent < Len(pool)
                            THEN << BatchMessage(SubSeq(pool, sent + 1, Len(pool))) >>
                            ELSE << >>) \o << DoneMessage >>
                      ELSE << >>)
           /\ batchedLines' = IF parsedLines + n = Len(pool) THEN Len(pool) ELSE sent
    /\ Len(inbox') <= MaxInbox
    /\ parsedLines' = parsedLines + n
    /\ UNCHANGED << selectedFile, worker, isParsing, allEntries, filterQuery,
                    filteredEntries, lastSearchResultCount, error, isSearching,
                    searchCache, fallbackIndexer, posted, searchQuery,
                    searchFilteredEntries, searchResultCount, effectPending >>
    /\ NotSearching
    /\ ServiceIdle("chunk")

\* The worker takes the search message between two chunks:
\* handleSearchMessage over the entries it has parsed.
WorkerSearch ==
  /\ ~effectPending
  /\ worker = "live"
  /\ posted.type = "search"
  /\ Len(inbox) + 2 <= MaxInbox
  /\ \E reply \in {handleSearchMessage(SubSeq(pool, 1, parsedLines), posted.query)} :
       inbox' = inbox \o << Message("search-start", reply.query, << >>, << >>), reply >>
  /\ posted' = NoMessage
  /\ UNCHANGED << selectedFile, worker, isParsing, allEntries, filterQuery,
                  filteredEntries, lastSearchResultCount, error, isSearching,
                  searchCache, fallbackIndexer, searchQuery, searchFilteredEntries,
                  searchResultCount, effectPending, parsedLines, batchedLines >>
  /\ NotSearching
  /\ ServiceIdle("search")

\* worker.onmessage takes the first waiting message of the given type.
Receive(type) ==
  /\ ~effectPending
  /\ inbox # << >>
  /\ Head(inbox).type = type
  /\ inbox' = Tail(inbox)
  /\ UNCHANGED << selectedFile, worker, fallbackIndexer, posted, searchQuery,
                  searchFilteredEntries, searchResultCount, parsedLines, batchedLines >>
  /\ NotSearching
  /\ ServiceIdle(type)

\* A batch handler that keeps the entries of the last batch only.
OnBatchReplacing ==
  /\ Receive("batch")
  /\ allEntries' = Head(inbox).entries
  /\ filteredEntries' = IF filterQuery = << >>
                        THEN List(filteredEntries.list \o Head(inbox).entries)
                        ELSE filteredEntries
  /\ effectPending' = TRUE
  /\ UNCHANGED << isParsing, filterQuery, lastSearchResultCount, error, isSearching,
                  searchCache >>

\* msg.type === 'batch'
OnBatch ==
  /\ Receive("batch")
  /\ allEntries' = allEntries \o Head(inbox).entries
  /\ filteredEntries' = IF filterQuery = << >>
                        THEN List(filteredEntries.list \o Head(inbox).entries)
                        ELSE filteredEntries
  /\ effectPending' = TRUE
  /\ UNCHANGED << isParsing, filterQuery, lastSearchResultCount, error, isSearching,
                  searchCache >>

\* msg.type === 'done'
OnDone ==
  /\ Receive("done")
  /\ isParsing' = FALSE
  /\ filteredEntries' = IF filterQuery = << >> /\ filteredEntries.isNull
                        THEN List(allEntries)
                        ELSE filteredEntries
  /\ UNCHANGED << allEntries, filterQuery, lastSearchResultCount, error, isSearching,
                  searchCache, effectPending >>

\* msg.type === 'search-start'
OnSearchStart ==
  /\ Receive("search-start")
  /\ isSearching' = TRUE
  /\ UNCHANGED << isParsing, allEntries, filterQuery, filteredEntries,
                  lastSearchResultCount, error, searchCache, effectPending >>

\* A search-result handler that applies every reply.
OnSearchResultOfAnyQuery ==
  /\ Receive("search-result")
  /\ filteredEntries' = List(Head(inbox).entries)
  /\ lastSearchResultCount' = Num(Len(Head(inbox).entries))
  /\ searchCache' = MapSet(searchCache, Head(inbox).query, Head(inbox).entries)
  /\ isSearching' = FALSE
  /\ UNCHANGED << isParsing, allEntries, filterQuery, error, effectPending >>

\* msg.type === 'search-result': applied when it answers the present query
OnSearchResult ==
  /\ Receive("search-result")
  /\ IF Head(inbox).query = toLowerCase(trim(filterQuery))
     THEN /\ filteredEntries' = List(Head(inbox).entries)
          /\ lastSearchResultCount' = Num(Len(Head(inbox).entries))
          /\ searchCache' = MapSet(searchCache, Head(inbox).query, Head(inbox).entries)
          /\ isSearching' = FALSE
     ELSE UNCHANGED << filteredEntries, lastSearchResultCount, searchCache, isSearching >>
  /\ UNCHANGED << isParsing, allEntries, filterQuery, error, effectPending >>

\* msg.type === 'search-error'
OnSearchError ==
  /\ Receive("search-error")
  /\ error' = Str(Head(inbox).error)
  /\ isSearching' = FALSE
  /\ UNCHANGED << isParsing, allEntries, filterQuery, filteredEntries,
                  lastSearchResultCount, searchCache, effectPending >>

\* setFilterQuery once the worker has taken the search message before it.
SetFilterQueryOfWorker == posted.type = "none" /\ SetFilterQueryOf(WorkerQueryInputs)

NextWorker ==
  \/ SetFile
  \/ StartParse
  \/ WorkerChunk
  \/ WorkerSearch
  \/ OnBatch
  \/ OnDone
  \/ OnSearchStart
  \/ OnSearchResult
  \/ OnSearchError
  \/ SetFilterQueryOfWorker
  \/ ExecuteQuery

\* FileParseService with its worker: parsing and searching interleave.
SpecWorker == InitService /\ [][NextWorker]_vars

\* The queries typed while replies are outstanding.
ReplyQueryInputs == {<< >>, sTimeout}

SetFilterQueryOfReplies ==
  /\ worker = "live"
  /\ posted.type = "none"
  /\ SetFilterQueryOf(ReplyQueryInputs)

NextReplies ==
  \/ SetFile
  \/ StartParse
  \/ WorkerChunk
  \/ WorkerSearch
  \/ OnBatch
  \/ OnDone
  \/ OnSearchStart
  \/ OnSearchResult
  \/ SetFilterQueryOfReplies
  \/ ExecuteQuery

\* A file is parsed while searches are posted and answered.
SpecReplies == InitService /\ [][NextReplies]_vars

\* ------------------------------------------------------------------------
\* The two search sites over the same entries
\* ------------------------------------------------------------------------

\* The queries put to both sites.
SiteQueryInputs == {sTimeout, sUnknown, sLevelIsError, sStarTimeout}

\* The entry sequence put to the main-thread search: a holder of the service
\* sets the public allEntries signal to entries a worker has parsed, and no
\* worker exists.
SetAllEntries ==
  \E n \in 1..Len(pool) :
    /\ ~effectPending
    /\ worker = "null"
    /\ allEntries' = SubSeq(pool, 1, n)
    /\ effectPending' = TRUE
    /\ UNCHANGED << selectedFile, worker, isParsing, filterQuery, filteredEntries,
                    lastSearchResultCount, error, isSearching, searchCache,
                    fallbackIndexer, posted, searchQuery, searchFilteredEntries,
                    searchResultCount, parsedLines, batchedLines, inbox >>
    /\ NotSearching
    /\ ServiceIdle("allEntries.set")

SetFilterQueryOfSites == worker = "null" /\ SetFilterQueryOf(SiteQueryInputs)

NextSites ==
  \/ SetAllEntries
  \/ SetFilterQueryOfSites
  \/ ExecuteQuery

\* FileParseService without a worker, searching on the main thread.
SpecSites == InitService /\ [][NextSites]_vars

\* ------------------------------------------------------------------------
\* Index/scan equivalence
\* ------------------------------------------------------------------------

\* The indexer holds what buildIndexes(entries) leaves.
Built == indexes \in buildIndexes(entries)

\* The result of the held query over the same entries with indexer undefined.
FullScan ==
  evaluateQuery(query, [entries |-> entries, hasIndexer |-> FALSE,
                        indexer |-> indexes, revision |-> context.revision])

\* C1: with an indexer built from the entries, a comparison `level = v` or
\* `environment = v` returns the same set of indices as the full scan of the
\* same entries.
LevelEnvironmentIndexEqualsScan ==
  (/\ query.type = "ComparisonExpression"
   /\ query.operator = "="
   /\ query.field \in {"level", "environment"}
   /\ context.hasIndexer
   /\ context.revision = "extractor"
   /\ Built)
    => Range(matched) = Range(FullScan)

\* C2: with an indexer built from the entries, contains(message, s) returns
\* every index the full scan matches (every entry whose message contains s
\* case-insensitively): the keyword pre-filter has no false negatives.
ContainsMessageHasNoFalseNegatives ==
  (/\ query.type = "FunctionCall"
   /\ query.function = "contains"
   /\ query.field = "message"
   /\ context.hasIndexer
   /\ context.revision = "inline"
   /\ Built)
    => Range(FullScan) \subseteq Range(matched)

\* C3: with an indexer built from the entries, a comparison on `timestamp`
\* with =, >, <, >= or <= and a date-parseable string literal returns the same
\* set of indices as the full scan of the same entries.
TimestampIndexEqualsScan ==
  (/\ query.type = "ComparisonExpression"
   /\ query.field = "timestamp"
   /\ query.operator \in TimestampOperators
   /\ query.valueType = "string"
   /\ DateParse(String(query.value)).t = "num"
   /\ context.hasIndexer
   /\ context.revision = "inline"
   /\ Built)
    => Range(matched) = Range(FullScan)

\* ------------------------------------------------------------------------
\* The timestamp index
\* ------------------------------------------------------------------------

SortedByTimestamp(ts) ==
  \A a \in 1..Len(ts), b \in 1..Len(ts) :
    a < b => NumLE(ts[a].timestamp, ts[b].timestamp)

\* C4: after any buildIndexes, addBatch or addEntry call the timestamps array
\* is sorted in non-decreasing timestamp order.
TimestampsSortedAfterIndexing ==
  lastOp \in {"buildIndexes", "addBatch", "addEntry"}
    => SortedByTimestamp(indexes.timestamps)

\* The entry with index i is in every index list that its level, environment,
\* kind and keywords name.
IndexedByFields(i) ==
  LET entry == entries[i + 1]
      message == extractMessage(entry)
  IN /\ i \in Range(MapGet(indexes.byLevel, getNormalizedLevel(entry)))
     /\ i \in Range(MapGet(indexes.byEnvironment, getNormalizedEnvironment(entry)))
     /\ i \in Range(MapGet(indexes.byKind, KindChars(entry.kind)))
     /\ Truthy(message) =>
          \A w \in Range(messageKeywordsOf(message.s)) :
            i \in Range(MapGet(indexes.messageKeywords, w))

TimestampIndexed(i) ==
  \E k \in 1..Len(indexes.timestamps) : indexes.timestamps[k].index = i

\* C9: when buildIndexes or addBatch has indexed a batch, no NaN timestamp is
\* stored, an entry of the batch whose timestamp cannot be parsed has no
\* element in the timestamp index and is indexed by level, environment, kind
\* and keywords, and the other entries of the batch are indexed too.
UnparseableTimestampIsSkipped ==
  lastOp \in {"buildIndexes", "addBatch"} =>
    /\ \A k \in 1..Len(indexes.timestamps) : indexes.timestamps[k].timestamp.t # "nan"
    /\ \A i \in batchStart..(Len(entries) - 1) :
         /\ IndexedByFields(i)
         /\ IF extractTimestamp(entries[i + 1]).t = "num"
            THEN TimestampIndexed(i)
            ELSE ~TimestampIndexed(i)

\* start <= t <= end, where a null bound does not bound.
WithinRange(t, startMs, endMs) ==
  /\ t.t = "num"
  /\ startMs = Null \/ NumLE(startMs, t)
  /\ endMs = Null \/ NumLE(t, endMs)

\* The timestamp indexed for the entry with index i.
IndexedTimestamp(i) ==
  LET k == CHOOSE j \in 1..Len(indexes.timestamps) : indexes.timestamps[j].index = i
  IN indexes.timestamps[k].timestamp

\* C10: on an indexer that buildIndexes or addBatch has left,
\* queryTimestampRange(start, end) returns exactly the indices of the indexed
\* entries with start <= timestamp <= end, each once, in non-decreasing
\* timestamp order.
RangeQueryReturnsEntriesInRange ==
  (query.type = "queryTimestampRange" /\ lastOp \in {"buildIndexes", "addBatch"}) =>
    LET ts == indexes.timestamps
        expected == {ts[k].index : k \in {j \in 1..Len(ts) :
                       WithinRange(ts[j].timestamp, query.startMs, query.endMs)}}
    IN /\ Range(matched) = expected
       /\ Len(matched) = Cardinality(expected)
       /\ \A a \in 1..Len(matched), b \in 1..Len(matched) :
            a < b => NumLE(IndexedTimestamp(matched[a]), IndexedTimestamp(matched[b]))

\* ------------------------------------------------------------------------
\* Boolean operators
\* ------------------------------------------------------------------------

\* The result of a sub-expression of the held query in the same context.
SubResult(node) ==
  Range(evaluateQuery(node, [entries |-> entries, hasIndexer |-> context.hasIndexer,
                             indexer |-> indexes, revision |-> context.revision]))

\* C5: the index set of `P AND Q` is the intersection of the index sets of P
\* and of Q over the same entries, and that of `P OR Q` is their union.
AndIsIntersectionOrIsUnion ==
  query.type = "BinaryExpression" =>
    Range(matched) =
      IF query.operator = "AND"
      THEN SubResult(query.left) \cap SubResult(query.right)
      ELSE SubResult(query.left) \cup SubResult(query.right)

\* An AND whose operands match different, overlapping sets has been evaluated.
AndOfOverlappingOperands ==
  /\ query.type = "BinaryExpression"
  /\ query.operator = "AND"
  /\ matched # << >>
  /\ Range(matched) # SubResult(query.left)
  /\ Range(matched) # SubResult(query.right)

\* C6: the index set of `NOT P` is the set of the i with 0 <= i < E.length
\* that are not in the index set of P, with and without an indexer.
NotIsComplement ==
  query.type = "NotExpression" =>
    Range(matched) = (0..(Len(entries) - 1)) \ SubResult(query.expression)

\* A NOT that keeps some entries and drops others has been evaluated with an
\* indexer.
NotOfPartialMatch ==
  /\ query.type = "NotExpression"
  /\ context.hasIndexer
  /\ matched # << >>
  /\ SubResult(query.expression) # {}

\* ------------------------------------------------------------------------
\* Missing fields
\* ------------------------------------------------------------------------

\* The record of the entry has no property of that name, nor has its labels.
FieldIsMissing(entry, fieldName) ==
  /\ ~Has(entry.entry, << fieldName >>)
  /\ ~Has(entry.entry, << "labels", fieldName >>)

\* C7: an entry that does not have the field is in the match set of no
\* comparison and of no function predicate on that field.
MissingFieldNeverMatches ==
  (/\ query.type \in {"ComparisonExpression", "FunctionCall"}
   /\ query.field = "hostname"
   /\ context.revision = "extractor")
    => \A i \in Range(matched) : ~FieldIsMissing(entries[i + 1], "hostname")

\* ------------------------------------------------------------------------
\* Failed parses
\* ------------------------------------------------------------------------

\* C8: whenever parseQuery returns isLegacyTextSearch = false together with
\* a non-empty errors list, with a null or with a partial AST, executeQuery
\* and the main-thread path of setFilterQuery run neither evaluateQuery nor
\* the free-text search, and leave the empty result list with count 0.
ParseFailed ==
  /\ parsedQuery.called
  /\ ~parsedQuery.isLegacyTextSearch
  /\ parsedQuery.errors # << >>

FailedParseShowsNothing ==
  ParseFailed =>
    /\ ran = {}
    /\ lastOp = "executeQuery" =>
         searchFilteredEntries = List(<< >>) /\ searchResultCount = Num(0)
    /\ lastOp = "setFilterQuery" =>
         filteredEntries = List(<< >>) /\ lastSearchResultCount = Num(0)

\* ------------------------------------------------------------------------
\* Result lists
\* ------------------------------------------------------------------------

\* A result of evaluateQuery is held.
Evaluated ==
  query.type \in {"ComparisonExpression", "FunctionCall",
                  "NotExpression", "BinaryExpression"}

\* No value occurs at two positions of the list.
NoDuplicates(list) ==
  \A i, j \in 1..Len(list) : list[i] = list[j] => i = j

\* C12: for every AST and every evaluation context, with or without an
\* indexer, the matchedIndices list returned by evaluateQuery holds no index
\* more than once.
MatchedIndicesAreDistinct == Evaluated => NoDuplicates(matched)

\* C13: the matchedIndices array of an evaluation is freshly allocated: its
\* contents are those it was returned with after every later addEntry,
\* addBatch or buildIndexes call on the indexer used for the evaluation.
RetainedResultIsUnchanged ==
  retained.alias # "none" => RetainedNow = retained.atReturn

\* ------------------------------------------------------------------------
\* Pino levels
\* ------------------------------------------------------------------------

\* The level name of a pino level code.
PinoLevelName(code) ==
  CASE code = 10 -> sTrace
    [] code = 20 -> sDebug
    [] code = 30 -> sInfo
    [] code = 40 -> sWarn
    [] code = 50 -> sError
    [] code = 60 -> sFatal
    [] OTHER -> sUnknown

\* C14: among pino entries, the query `level = <name>` matches exactly the
\* entries whose numeric level code maps to <name> (10/20/30/40/50/60 are
\* trace/debug/info/warn/error/fatal), with an indexer built from the
\* entries and with the full scan.
LevelQueryMatchesPinoCodes ==
  (/\ query.type = "ComparisonExpression"
   /\ query.field = "level"
   /\ query.operator = "="
   /\ context.revision = "extractor"
   /\ context.hasIndexer => Built)
    => \A i \in 1..Len(entries) :
         entries[i].kind = "pino" =>
           ((i - 1) \in Range(matched)
              <=> Str(PinoLevelName(Get(entries[i].entry, << "level" >>).n)) = query.value)

\* ------------------------------------------------------------------------
\* The entry count of the indexer
\* ------------------------------------------------------------------------

\* C17: after buildIndexes(E) followed by any sequence of addBatch and
\* addEntry calls that add each new store entry exactly once, totalEntries
\* equals the number of entries in the store.
TotalEntriesIsStoreSize ==
  IndexerCoversStore => indexes.totalEntries = Len(entries)

\* A single entry added to an indexer that was built and has grown since.
EntryAddedToBuiltIndexer ==
  /\ lastOp = "addEntry"
  /\ batchStart = MaxEntries - 1
  /\ indexes.totalEntries = MaxEntries

\* ------------------------------------------------------------------------
\* Invalid regular expressions
\* ------------------------------------------------------------------------

\* The node is a matches() call whose pattern or flags do not compile.
IsInvalidMatches(node) ==
  /\ node.type = "FunctionCall"
  /\ node.function = "matches"
  /\ IF node.argument.type = "RegexPattern"
     THEN RegExpThrows(node.argument.pattern, node.argument.flags)
     ELSE RegExpThrows(String(node.argument.value), << >>)

\* The indices 0 .. n-1 in order.
AllIndices(n) == [i \in 1..n |-> i - 1]

\* C19: a matches() predicate whose pattern or flags are invalid is false for
\* every entry, and the enclosing query is still evaluated: the predicate
\* alone matches nothing, NOT of it matches every index, and `p OR` it
\* matches what p matches.
InvalidRegexMatchesNothing ==
  /\ IsInvalidMatches(query) => matched = << >>
  /\ (query.type = "NotExpression" /\ IsInvalidMatches(query.expression))
       => matched = AllIndices(Len(entries))
  /\ (query.type = "BinaryExpression" /\ IsInvalidMatches(query.right))
       => Range(matched) = SubResult(query.left)

\* NOT matches(message, <invalid>) over a full store with a message that
\* holds the pattern's text.
NotOfInvalidRegex ==
  /\ query.type = "NotExpression"
  /\ IsInvalidMatches(query.expression)
  /\ Len(matched) = MaxEntries
  /\ \E i \in 1..Len(entries) : entries[i] = PinoError

\* ------------------------------------------------------------------------
\* Ordering operators
\* ------------------------------------------------------------------------

\* An ordering comparison on a field other than timestamp is held.
OrderingEvaluated ==
  /\ query.type = "ComparisonExpression"
  /\ query.operator \in OrderingOperators
  /\ query.field \in {"pid", "hostname"}

\* The indices whose extracted field value is not null and stands in the
\* relation Ordered(fieldValue, operator, literal) to the literal.
MatchedAre(Ordered(_, _, _)) ==
  \A i \in 1..Len(entries) :
    LET fieldValue == FieldValueOf(context, entries[i], query.field)
    IN (i - 1) \in Range(matched)
         <=> /\ fieldValue.t # "null"
             /\ Ordered(fieldValue, query.operator, query.value)

BothNumbers(a, b) == TypeOf(a) = "number" /\ TypeOf(b) = "number"
BothStrings(a, b) == TypeOf(a) = "string" /\ TypeOf(b) = "string"

\* Numeric when both operands are numbers, else the lexicographic order of
\* the string forms.
NumericElseText(a, operator, b) ==
  IF BothNumbers(a, b) THEN NumCompare(a, operator, b)
  ELSE StrCompare(String(a), operator, String(b))

\* As NumericElseText, with two strings compared lowercased by the evaluator
\* that reads fields through field-extractor.
NumericElseFoldedText(a, operator, b) ==
  IF BothStrings(a, b) /\ context.revision = "extractor"
  THEN StrCompare(toLowerCase(a.s), operator, toLowerCase(b.s))
  ELSE NumericElseText(a, operator, b)

\* C20: for >, <, >= and <=, when the extracted field value and the query
\* literal are both numbers the result is their numeric comparison; in every
\* other combination of types it is the lexicographic comparison of their
\* string forms.
OrderingIsNumericElseText == OrderingEvaluated => MatchedAre(NumericElseText)

\* C20, amended: as above, except that the evaluator reading fields through
\* field-extractor compares two strings by their lowercased forms.
OrderingIsNumericElseFoldedText ==
  OrderingEvaluated => MatchedAre(NumericElseFoldedText)

\* `hostname < "Host-B"` matches an entry of hostname host-a, which the
\* lowercased forms order that way and the forms as they are do not.
OrderingOfMixedCaseStrings ==
  /\ OrderingEvaluated
  /\ query.field = "hostname"
  /\ query.operator = "<"
  /\ query.value = Str(sHostB)
  /\ context.revision = "extractor"
  /\ \E i \in 1..Len(entries) :
       /\ entries[i] = PinoError
       /\ (i - 1) \in Range(matched)

\* ------------------------------------------------------------------------
\* Fuzzy matching
\* ------------------------------------------------------------------------

\* b is a with one character taken out.
DeletionOf(a, b) ==
  /\ Len(a) = Len(b) + 1
  /\ \E i \in 1..Len(a) : b = SubSeq(a, 1, i - 1) \o SubSeq(a, i + 1, Len(a))

\* Edit distance at most 1: one character substituted, inserted or deleted.
WithinOneEdit(a, b) ==
  \/ Len(a) = Len(b) /\ Cardinality({i \in 1..Len(a) : a[i] # b[i]}) <= 1
  \/ DeletionOf(a, b)
  \/ DeletionOf(b, a)

\* C15: a token matches whenever some delimiter-separated word of length at
\* least 3 of the search text is within edit distance 1 of the token, whether
\* or not the token is a substring of the text.
TokenWithinOneEditMatches ==
  query.type = "matchesQuery" =>
    ((\E w \in Range(SplitTokens(query.searchText, 1, << >>)) :
        Len(w) >= 3 /\ WithinOneEdit(w, query.token))
       => matched = << 0 >>)

\* ------------------------------------------------------------------------
\* The empty query while the worker parses
\* ------------------------------------------------------------------------

IsSearchReply(message) ==
  message.type \in {"search-start", "search-result", "search-error"}

\* The worker holds no search message and none of its answers waits.
NoReplyOutstanding ==
  /\ posted.type # "search"
  /\ \A i \in 1..Len(inbox) : ~IsSearchReply(inbox[i])

\* C16: whenever the filter query is empty and no search reply is
\* outstanding, filteredEntries, when not null, is the sequence of the
\* entries received in batches so far, in arrival order, each once.
EmptyQueryShowsAllReceived ==
  (filterQuery = << >> /\ NoReplyOutstanding /\ ~filteredEntries.isNull)
    => filteredEntries.list = allEntries

\* ------------------------------------------------------------------------
\* Free-text searches complete
\* ------------------------------------------------------------------------

\* C18: a query that is not a structured query is answered with
\* search-result, never search-error, and the main-thread path of
\* setFilterQuery returns without throwing.
FreeTextSearchCompletes ==
  /\ \A i \in 1..Len(inbox) : inbox[i].type # "search-error"
  /\ "threw" \notin ran

\* ------------------------------------------------------------------------
\* The two execution sites
\* ------------------------------------------------------------------------

\* setFilterQuery has just searched on the main thread and returned.
SearchedOnMainThread ==
  /\ lastOp = "setFilterQuery"
  /\ worker = "null"
  /\ parsedQuery # NoParse
  /\ "threw" \notin ran

\* C11: for the same entry sequence and the same query string, the search
\* on the main thread (setFilterQuery without a worker) shows the list of
\* entries, in the same order, that the worker's handleSearchMessage
\* answers with.
SitesProduceTheSameList ==
  SearchedOnMainThread =>
    \E reply \in {handleSearchMessage(allEntries, filterQuery)} :
      reply.type = "search-result" =>
        (~filteredEntries.isNull /\ filteredEntries.list = reply.entries)

\* ------------------------------------------------------------------------
\* The keywords of one message
\* ------------------------------------------------------------------------

ThreeOf(c) == << c, c, c >>
KeywordLetters == << "b", "c", "d", "e", "f", "g", "h", "i", "j", "k", "l", "m" >>
sThe == << "t", "h", "e" >>
sAnd == << "a", "n", "d" >>
sFor == << "f", "o", "r" >>
sIs == << "i", "s" >>
sDiskCapital == << "D", "i", "s", "k" >>
sFullCapitals == << "F", "U", "L", "L" >>
LetterWords(from, to) == [i \in 1..(to - from + 1) |-> ThreeOf(KeywordLetters[from + i - 1])]

\* The messages indexed: more than ten keywords, repeated keywords, stop
\* words and short words between keywords, capitals, runs of white space.
KeywordMessages ==
  { join(LetterWords(1, 12), << " " >>),
    join(LetterWords(1, 10) \o LetterWords(1, 1), << " " >>),
    join(LetterWords(1, 1) \o LetterWords(1, 2), << " " >>),
    join(<< sThe, sDiskCapital, sIs, sOk, sFullCapitals, sDisk >>, << " " >>),
    join(<< sThe >> \o LetterWords(1, 2) \o << sAnd >> \o LetterWords(3, 10)
           \o << sFor >> \o LetterWords(11, 12), << " " >>),
    << " ", " " >> \o sDiskCapital \o << " ", " ", " " >> \o sFullCapitals \o << " " >>,
    join(<< sThe, sIs, sAnd >>, << " " >>) }

\* indexMessageKeywords(message, index) is called for the next index.
IndexMessageKeywords ==
  \E message \in KeywordMessages :
    /\ batchStart < MaxEntries
    /\ query' = [type |-> "indexMessageKeywords", message |-> message,
                 index |-> batchStart, before |-> indexes.messageKeywords]
    /\ indexes' = [indexes EXCEPT
                     !.messageKeywords = indexMessageKeywords(@, message, batchStart)]
    /\ batchStart' = batchStart + 1
    /\ context' = NoContext
    /\ matched' = << >>
    /\ UNCHANGED << pool, entries, lastOp, retained, serviceVars >>

\* The keyword index fed with one message after the other.
SpecKeywords == InitBoolean /\ [][IndexMessageKeywords]_vars

\* The tokens of a message by their positions: a token starts at a
\* character that is no white space and stands first or behind white space,
\* and ends before the next white space.
TokenStarts(s) == {a \in 1..Len(s) : ~IsSpace(s[a]) /\ (a = 1 \/ IsSpace(s[a - 1]))}
TokenEnd(s, a) ==
  CHOOSE b \in a..Len(s) :
    /\ b = Len(s) \/ IsSpace(s[b + 1])
    /\ \A c \in a..b : ~IsSpace(s[c])
TokenAt(s, a) == toLowerCase(SubSeq(s, a, TokenEnd(s, a)))
Surviving(s) ==
  {a \in TokenStarts(s) : Len(TokenAt(s, a)) >= 3 /\ TokenAt(s, a) \notin StopWords}
FirstOf(starts, n) == {a \in starts : Cardinality({b \in starts : b < a}) < n}
\* The first n surviving tokens of a message, by their positions.
FirstSurviving(s, n) ==
  CHOOSE token \in {[a \in FirstOf(starts, n) |-> TokenAt(s, a)] : starts \in {Surviving(s)}} :
    TRUE
TimesIn(list, x) == Cardinality({i \in 1..Len(list) : list[i] = x})
TimesIndexed(keywordMap, x) ==
  Cardinality({p \in UNION {{<< k, i >> : i \in 1..Len(keywordMap[k])} : k \in DOMAIN keywordMap} :
                 keywordMap[p[1]][p[2]] = x})

\* C21: indexing one message adds the entry's index at most 10 times, under
\* the keys that are the first 10 lowercased whitespace-delimited tokens of
\* length >= 3 that are no stop words, once per occurrence among these ten,
\* and leaves the lists of the other indexes as they were.
KeywordsAreTheFirstTenTokens ==
  query.type = "indexMessageKeywords" =>
    /\ TimesIndexed(indexes.messageKeywords, query.index) <= 10
    /\ \E token \in {FirstSurviving(query.message, 10)} :
         /\ \A a \in DOMAIN token : token[a] \in DOMAIN indexes.messageKeywords
         /\ \A k \in DOMAIN indexes.messageKeywords :
              /\ TimesIn(indexes.messageKeywords[k], query.index)
                   = Cardinality({a \in DOMAIN token : token[a] = k})
              /\ SelectSeq(indexes.messageKeywords[k], LAMBDA i : i # query.index)
                   = MapGet(query.before, k)

\* A message of more than ten keywords was indexed under ten of them.
MessageOfMoreThanTenKeywordsIndexed ==
  /\ query.type = "indexMessageKeywords"
  /\ Cardinality(Surviving(query.message)) > 10
  /\ TimesIndexed(indexes.messageKeywords, query.index) = 10

\* ------------------------------------------------------------------------
\* Rebuilding and extending the indexes
\* ------------------------------------------------------------------------

\* Entries of two different timestamps and one whose timestamp does not parse.
TimestampPool == {PinoError, PinoInfo, WinstonBadDate}

InitTimestamps == InitWith(TimestampPool)

NextRebuild ==
  \/ BuildIndexes
  \/ AddBatch
  \/ AddEntry
  \/ Clear

\* One indexer through any sequence of buildIndexes, addBatch, addEntry and
\* clear calls; the store grows with the entries added.
SpecRebuild == InitTimestamps /\ [][NextRebuild]_vars

AddBatchToBuilt == lastOp = "buildIndexes" /\ AddBatch

NextExtend ==
  \/ ReceiveBeforeBuild
  \/ BuildIndexes
  \/ AddBatchToBuilt

\* buildIndexes(E1) of the store, then one addBatch(E2, |E1|).
SpecExtend == InitTimestamps /\ [][NextExtend]_vars

\* The array buildIndexes hands to timestamps.sort.
UnsortedTimestamps(list) == IndexAll(createEmptyIndexes, list, 0).timestamps

\* The array the addBatch of the last entries handed to timestamps.sort,
\* given the array before it.
ExtendedTimestamps(before, list, startIndex) ==
  before \o SubSeq(UnsortedTimestamps(list), startIndex + 1, Len(list))

SameIndexes(ix, fresh) ==
  /\ ix.byLevel = fresh.byLevel
  /\ ix.byEnvironment = fresh.byEnvironment
  /\ ix.byKind = fresh.byKind
  /\ ix.messageKeywords = fresh.messageKeywords
  /\ ix.totalEntries = fresh.totalEntries
  /\ ix.timestamps = fresh.timestamps

\* C23: buildIndexes(E1) followed by addBatch(E2, |E1|) leaves the maps,
\* the timestamp array and totalEntries that buildIndexes(E1 ++ E2) leaves.
\* Two sorts of the same array count as the same.
AddBatchEqualsRebuild ==
  [][(lastOp = "buildIndexes" /\ lastOp' = "addBatch") =>
       \A fresh \in buildIndexes(entries') :
         \/ SameIndexes(indexes', fresh)
         \/ /\ SameIndexes([indexes' EXCEPT !.timestamps = << >>],
                           [fresh EXCEPT !.timestamps = << >>])
            /\ ExtendedTimestamps(indexes.timestamps, entries', Len(entries))
                 = UnsortedTimestamps(entries')]_vars

\* ------------------------------------------------------------------------
\* Replies of the worker to searches
\* ------------------------------------------------------------------------

\* The step that handles a search-result message whose query is not the
\* present filter query.
StaleResultHandled ==
  /\ inbox # << >>
  /\ Head(inbox).type = "search-result"
  /\ inbox' = Tail(inbox)
  /\ lastOp' = "search-result"
  /\ Head(inbox).query # toLowerCase(trim(filterQuery))

\* C24: handling a search-result message whose query differs from the
\* present normalized filter query leaves filteredEntries,
\* lastSearchResultCount and the search cache unchanged.
StaleSearchResultIsDiscarded ==
  [][StaleResultHandled =>
       UNCHANGED << filteredEntries, lastSearchResultCount, searchCache >>]_vars

\* A reply was handled and not applied: the search-start before it set
\* isSearching, and only an applied reply resets it.
ReplyToOlderQueryHandled ==
  /\ lastOp = "search-result"
  /\ isSearching
  /\ posted.type # "search"

\* The step of a setFilterQuery that finds its key in the search cache.
ServedFromCache ==
  /\ lastOp' = "setFilterQuery"
  /\ filterQuery' \in DOMAIN searchCache
  /\ searchCache' = searchCache

\* C25: whenever setFilterQuery(q) serves its result from the search cache,
\* the list it shows is the answer of a fresh search for q over the present
\* entries: over allEntries, or over the entries the worker holds, which a
\* search posted now would be answered from.
CachedResultIsFresh ==
  [][ServedFromCache =>
       \E all \in {allEntries, SubSeq(pool, 1, parsedLines)} :
         \E reply \in {handleSearchMessage(all, filterQuery')} :
           /\ reply.type = "search-result"
           /\ filteredEntries' = List(reply.entries)]_vars

\* C26: once the worker has taken every search message and all of its
\* replies have been handled, isSearching is false.
NotSearchingWhenAllRepliesHandled == NoReplyOutstanding => ~isSearching

\* ------------------------------------------------------------------------
\* Delivery of the parsed entries
\* ------------------------------------------------------------------------

\* The entries of the batch messages that wait, in their order.
RECURSIVE WaitingEntries(_)
WaitingEntries(messages) ==
  IF messages = << >> THEN << >>
  ELSE (IF Head(messages).type = "batch" THEN Head(messages).entries ELSE << >>)
         \o WaitingEntries(Tail(messages))

\* C27: in one parse run every parsed entry is delivered in exactly one
\* batch message, in parse order: the entries received followed by those
\* of the waiting batches are the entries the worker has posted, and when
\* done is handled allEntries is the worker's allEntries.
EveryEntryIsDeliveredOnce ==
  /\ worker = "live" =>
       allEntries \o WaitingEntries(inbox) = SubSeq(pool, 1, batchedLines)
  /\ lastOp = "done" =>
       /\ parsedLines = Len(pool)
       /\ allEntries = SubSeq(pool, 1, parsedLines)

\* done was handled after the file came in more than one batch.
DoneAfterSeveralBatches ==
  /\ lastOp = "done"
  /\ Len(allEntries) = Len(pool)
  /\ Len(pool) > BatchSize

\* ------------------------------------------------------------------------
\* The entry store without a worker
\* ------------------------------------------------------------------------

\* C28: in every reachable state of FileParseService, if no worker exists
\* then allEntries is empty.
NoWorkerMeansNoEntries == worker = "null" => allEntries = << >>

\* setFile has reset the service after entries had been received: the
\* search service still shows them until its effect has run.
ResetAfterEntriesReceived ==
  /\ lastOp = "setFile"
  /\ worker = "null"
  /\ ~searchFilteredEntries.isNull
  /\ searchFilteredEntries.list # << >>

\* ------------------------------------------------------------------------
\* The worker's chunk loop over the file text
\* ------------------------------------------------------------------------

MaxFileLength == 4
MaxChunkSize == 4

\* The characters of the file texts: a letter, the braces of a JSON line,
\* carriage return and line feed.
FileAlphabet == {"a", "{", "}", "\r", "\n"}
FileTexts == UNION {[1..n -> FileAlphabet] : n \in 0..MaxFileLength}

\* text.replace(/\r\n/g, '\n').replace(/\r/g, '\n')
RECURSIVE NormalizeNewlines(_)
NormalizeNewlines(s) ==
  IF s = << >> THEN << >>
  ELSE IF Head(s) = "\r"
       THEN IF Len(s) > 1 /\ s[2] = "\n"
            THEN << "\n" >> \o NormalizeNewlines(SubSeq(s, 3, Len(s)))
            ELSE << "\n" >> \o NormalizeNewlines(Tail(s))
       ELSE << Head(s) >> \o NormalizeNewlines(Tail(s))

\* s.split('\n')
RECURSIVE SplitLinesFrom(_, _, _)
SplitLinesFrom(s, i, cur) ==
  IF i > Len(s) THEN << cur >>
  ELSE IF s[i] = "\n"
       THEN << cur >> \o SplitLinesFrom(s, i + 1, << >>)
       ELSE SplitLinesFrom(s, i + 1, Append(cur, s[i]))

SplitLines(s) == SplitLinesFrom(s, 1, << >>)

\* JSON.parse of a trimmed line over the file alphabet succeeds for the
\* empty object only.
JsonParses(trimmed) == trimmed = << "{", "}" >>

\* The entry of a non-blank trimmed line: mapJsonObjectToParsed of the
\* parsed object, or mapTextLine of a line that is no JSON or fails to parse.
ParseLine(trimmed) ==
  IF Head(trimmed) \in {"{", "["}
  THEN IF JsonParses(trimmed)
       THEN [kind |-> "unknown-json", line |-> trimmed, malformed |-> FALSE]
       ELSE [kind |-> "text", line |-> trimmed, malformed |-> TRUE]
  ELSE [kind |-> "text", line |-> trimmed, malformed |-> FALSE]

NothingParsed ==
  [entries |-> << >>, totalLines |-> 0, malformedCount |-> 0,
   counts |-> [kind \in {"text", "unknown-json"} |-> 0], remainder |-> << >>]

\* One parsed line is pushed and counted.
PushParsed(acc, parsed) ==
  [acc EXCEPT !.entries = Append(@, [kind |-> parsed.kind, line |-> parsed.line]),
              !.malformedCount = IF parsed.malformed THEN @ + 1 ELSE @,
              !.counts[parsed.kind] = @ + 1]

\* for (const line of parts): the line is counted, a blank line is skipped.
RECURSIVE ParseLines(_, _)
ParseLines(acc, parts) ==
  IF parts = << >> THEN acc
  ELSE ParseLines(
         IF trim(Head(parts)) = << >>
         THEN [acc EXCEPT !.totalLines = @ + 1]
         ELSE PushParsed([acc EXCEPT !.totalLines = @ + 1], ParseLine(trim(Head(parts)))),
         Tail(parts))

\* One pass of the chunk loop: the chunk is appended to the remainder, the
\* line ends are normalized, the last part is kept as the new remainder.
ParseParts(acc, parts) ==
  [ParseLines(acc, SubSeq(parts, 1, Len(parts) - 1)) EXCEPT !.remainder = parts[Len(parts)]]

ParseChunk(acc, chunkText) ==
  ParseParts(acc, SplitLines(NormalizeNewlines(acc.remainder \o chunkText)))

\* for (let offset = 0; offset < total; offset += chunkSize)
RECURSIVE ParseFrom(_, _, _, _)
ParseFrom(acc, text, chunkSize, offset) ==
  IF offset >= Len(text) THEN acc
  ELSE ParseFrom(
         ParseChunk(acc, SubSeq(text, offset + 1,
                                IF offset + chunkSize < Len(text)
                                THEN offset + chunkSize ELSE Len(text))),
         text, chunkSize, offset + chunkSize)

\* if (remainder.trim()): the last line without a line end
ParseRemainder(acc) ==
  IF trim(acc.remainder) = << >> THEN acc
  ELSE PushParsed([acc EXCEPT !.totalLines = @ + 1], ParseLine(trim(acc.remainder)))

\* The concatenated batch entries and the summary of one parse run.
ParseOutcome(text, chunkSize) ==
  [ParseRemainder(ParseFrom(NothingParsed, text, chunkSize, 0)) EXCEPT !.remainder = << >>]

\* The worker parses a file text with a chunk size.
ParseFile ==
  \E text \in FileTexts, chunkSize \in 1..MaxChunkSize :
    /\ Idle
    /\ query' = [type |-> "parse", text |-> text, chunkSize |-> chunkSize,
                 outcome |-> ParseOutcome(text, chunkSize)]
    /\ context' = NoContext
    /\ matched' = << >>
    /\ UNCHANGED << pool, entries, indexes, lastOp, batchStart, retained, serviceVars >>

NextParse ==
  \/ ParseFile
  \/ Return

SpecParse == InitBoolean /\ [][NextParse]_vars

\* C29: for a fixed file text and every chunkSize >= 1, the concatenated
\* batch entries and the summary's totalLines, malformedCount and per-kind
\* counts are those of reading the whole file in a single chunk.
ParseOutcomeIgnoresChunkSize ==
  query.type = "parse" =>
    query.outcome = ParseOutcome(query.text, Len(query.text))

\* ------------------------------------------------------------------------
\* The error/fatal timeline of the parse summary (file-parse.service.ts)
\* ------------------------------------------------------------------------

DEFAULT_TIMELINE_BUCKET_MS == 60000

\* The timeline startParse puts into the summary.
emptyTimeline ==
  [bucketSizeMs |-> DEFAULT_TIMELINE_BUCKET_MS,
   buckets |-> << >>,
   topPeakBucketIndices |-> << >>,
   totalErrorCount |-> 0,
   totalFatalCount |-> 0,
   noTimestampErrorCount |-> 0,
   noTimestampFatalCount |-> 0]

\* A summary without a timeline (undefined).
NoTimeline == [buckets |-> << >>]

getEntryTimestampMs(parsed) ==
  LET e == parsed.entry
      parsedDate(v) == LET ms == DateParseValue(v) IN IF ms.t = "nan" THEN Null ELSE ms
  IN
  CASE parsed.kind = "pino" ->
         LET time == Prop(e, "time") IN IF time.t = "num" THEN time ELSE Null
    [] parsed.kind = "winston" -> parsedDate(Prop(e, "timestamp"))
    [] parsed.kind \in {"loki", "promtail"} -> parsedDate(Prop(e, "ts"))
    [] parsed.kind = "docker" -> parsedDate(Prop(e, "time"))
    [] OTHER -> Null

\* buckets.sort by bucketStartMs: no two buckets start together.
SortedByStart(buckets) ==
  [i \in 1..Len(buckets) |->
     CHOOSE b \in Range(buckets) :
       Cardinality({c \in Range(buckets) : c.bucketStartMs < b.bucketStartMs}) = i - 1]

SumOf(buckets, field, start) ==
  LET RECURSIVE Reduce(_, _)
      Reduce(i, acc) ==
        IF i > Len(buckets) THEN acc ELSE Reduce(i + 1, acc + buckets[i][field])
  IN Reduce(1, start)

updateErrorFatalTimeline(summary, parsed, level) ==
  LET base == IF summary = NoTimeline THEN emptyTimeline ELSE summary
      timestampMs == getEntryTimestampMs(parsed)
  IN
  IF level # sError /\ level # sFatal THEN base
  ELSE IF timestampMs = Null
  THEN IF level = sError
       THEN [base EXCEPT !.noTimestampErrorCount = @ + 1]
       ELSE [base EXCEPT !.noTimestampFatalCount = @ + 1]
  ELSE
    LET bucketSizeMs == base.bucketSizeMs
        bucketIndex == timestampMs.n \div bucketSizeMs
        bucketStartMs == bucketIndex * bucketSizeMs
        bucketEndMs == bucketStartMs + bucketSizeMs
        found == {i \in 1..Len(base.buckets) : base.buckets[i].bucketStartMs = bucketStartMs}
        one(l) == IF level = l THEN 1 ELSE 0
        pushed ==
          IF found = {}
          THEN Append(base.buckets,
                      [bucketStartMs |-> bucketStartMs, bucketEndMs |-> bucketEndMs,
                       errorCount |-> one(sError), fatalCount |-> one(sFatal),
                       total |-> 1])
          ELSE LET existingIndex == CHOOSE i \in found : \A j \in found : i <= j
               IN [base.buckets EXCEPT ![existingIndex] =
                     [@ EXCEPT !.errorCount = @ + one(sError),
                               !.fatalCount = @ + one(sFatal),
                               !.total = base.buckets[existingIndex].errorCount + one(sError)
                                         + base.buckets[existingIndex].fatalCount + one(sFatal)]]
        buckets == SortedByStart(pushed)
    IN [base EXCEPT !.buckets = buckets,
                    !.totalErrorCount = SumOf(buckets, "errorCount", base.noTimestampErrorCount),
                    !.totalFatalCount = SumOf(buckets, "fatalCount", base.noTimestampFatalCount)]

\* The loop of the batch handler over the entries of one batch.
RECURSIVE FoldTimeline(_, _, _)
FoldTimeline(summary, batch, i) ==
  IF i > Len(batch) THEN summary
  ELSE FoldTimeline(updateErrorFatalTimeline(summary, batch[i], normalizeLogLevel(batch[i])),
                    batch, i + 1)

sBoom == <<"b","o","o","m">>

PinoFatal ==
  [kind |-> "pino",
   entry |-> << "time" >> :> Num(60200) @@ << "level" >> :> Num(60)
             @@ << "msg" >> :> Str(sBoom) @@ << "pid" >> :> Num(7)
             @@ << "hostname" >> :> Str(sHostA) @@ << "name" >> :> Str(sSvc)]

\* "time": 1e999 in the file: JSON.parse gives Infinity.
PinoFatalNoTime ==
  [kind |-> "pino",
   entry |-> << "time" >> :> PosInf @@ << "level" >> :> Num(60)
             @@ << "msg" >> :> Str(sBoom) @@ << "pid" >> :> Num(7)
             @@ << "hostname" >> :> Str(sHostA) @@ << "name" >> :> Str(sSvc)]

TimelinePool == {PinoError, PinoInfo, PinoFatal, PinoFatalNoTime, WinstonBadDate, TextError}

LevelCount(batch, level) ==
  Len(SelectSeq(batch, LAMBDA e : normalizeLogLevel(e) = level))

\* startParse: the summary starts with the empty timeline.
StartTimeline ==
  /\ Idle
  /\ query' = [type |-> "timeline", errorFatalTimeline |-> emptyTimeline,
               batch |-> << >>, folded |-> 0, errors |-> 0, fatals |-> 0]
  /\ UNCHANGED << pool, entries, indexes, lastOp, batchStart, context, matched,
                  retained, serviceVars >>

\* The batch handler's pass over one batch of the worker; errors and fatals
\* count the entries of these levels handled since startParse.
FoldBatch ==
  /\ query # NoQuery
  /\ query.type = "timeline"
  /\ \E batch \in Batches(TimelinePool) :
       /\ query.folded + Len(batch) <= MaxEntries
       /\ query' = [query EXCEPT
            !.errorFatalTimeline = FoldTimeline(query.errorFatalTimeline, batch, 1),
            !.batch = batch,
            !.folded = @ + Len(batch),
            !.errors = @ + LevelCount(batch, sError),
            !.fatals = @ + LevelCount(batch, sFatal)]
  /\ UNCHANGED << pool, entries, indexes, lastOp, batchStart, context, matched,
                  retained, serviceVars >>

NextTimeline == StartTimeline \/ FoldBatch \/ Return

SpecTimeline == InitBoolean /\ [][NextTimeline]_vars

Folding == query # NoQuery /\ query.type = "timeline" /\ query.folded > 0

\* C30: after every entry folded into the timeline, totalErrorCount is the
\* number of error entries handled so far, which is the sum of the buckets'
\* errorCount plus noTimestampErrorCount, and totalFatalCount likewise for
\* the fatal entries.
TimelineTotalsCountEveryEntry ==
  Folding =>
    LET t == query.errorFatalTimeline IN
    /\ t.totalErrorCount = query.errors
    /\ t.totalErrorCount = SumOf(t.buckets, "errorCount", t.noTimestampErrorCount)
    /\ t.totalFatalCount = query.fatals
    /\ t.totalFatalCount = SumOf(t.buckets, "fatalCount", t.noTimestampFatalCount)

\* The totals are right whenever the last entry folded had a timestamp.
TimelineTotalsAfterTimestamp ==
  (Folding /\ getEntryTimestampMs(query.batch[Len(query.batch)]) # Null
           /\ normalizeLogLevel(query.batch[Len(query.batch)]) \in {sError, sFatal}) =>
    LET t == query.errorFatalTimeline IN
    /\ t.totalErrorCount = query.errors
    /\ t.totalFatalCount = query.fatals

====
